---------------------------- MODULE Spec2Model ----------------------------
(***************************************************************************)
(* Verification model of web3-kms-signer: the Signer orchestrator, the     *)
(* KMS and HD wallets, the DER signature canonicalizer (decodeRS) and the  *)
(* recovery-id resolver (calculateV).                                      *)
(*                                                                         *)
(* The elliptic-curve primitive the code consumes (secp256k1, through      *)
(* @ethereumjs/util) is a real short-Weierstrass curve y^2 = x^3 + CurveB  *)
(* over the prime field F_FieldP whose group has prime order secp256k1N.   *)
(* The curve is scaled down so that every scalar fits in ScalarLen bytes;  *)
(* as for secp256k1 the cofactor is 1.  Its order exceeds the field prime, *)
(* so the x coordinate of a point is always a valid r and the recovery id  *)
(* is 0 or 1 (on secp256k1 the ids 2 and 3 have probability about 2^-128). *)
(***************************************************************************)
EXTENDS Integers, Sequences, FiniteSets, TLC

(***************************************************************************)
(* Widths (in bytes) of the scaled-down model.                             *)
(***************************************************************************)
ScalarLen == 2      \* length of r, s, a private key, a coordinate (32)
HashLen == 3        \* length of a keccak-256 digest (32)
AddrLen == 2        \* length of an address (20)
MaxNonce == 6       \* the KMS backend draws its nonce from 1..MaxNonce
MaxChainId == 3     \* chain ids given to the Signer constructor: 0..MaxChainId

ByteBase == 256
HashMod == 65521
HashMul == 157

(***************************************************************************)
(* Optional values (TypeScript `x?: T`): <<>> is undefined, <<x>> is x.    *)
(***************************************************************************)
Undefined == <<>>
Some(x) == <<x>>
IsDefined(o) == o # <<>>
ValueOf(o) == o[1]

Ok(x) == [ok |-> TRUE, val |-> x, err |-> ""]
Throw(msg) == [ok |-> FALSE, val |-> <<>>, err |-> msg]

(***************************************************************************)
(* Buffers are sequences of bytes, big-endian.                             *)
(***************************************************************************)
RECURSIVE Pow(_, _)
Pow(b, e) == IF e = 0 THEN 1 ELSE b * Pow(b, e - 1)

RECURSIVE bufferToBigInt(_)
bufferToBigInt(buf) ==
    IF Len(buf) = 0 THEN 0
    ELSE bufferToBigInt(SubSeq(buf, 1, Len(buf) - 1)) * ByteBase + buf[Len(buf)]

\* BN.toBuffer() and bigIntToBuffer: the minimal big-endian bytes, at least one
RECURSIVE bigIntToBuffer(_)
bigIntToBuffer(n) ==
    IF n < ByteBase THEN <<n>>
    ELSE Append(bigIntToBuffer(n \div ByteBase), n % ByteBase)

\* setLengthLeft(buf, len): left-pad with zeros, or keep the last len bytes
setLengthLeft(buf, len) ==
    IF Len(buf) >= len THEN SubSeq(buf, Len(buf) - len + 1, Len(buf))
    ELSE [i \in 1..len |-> IF i <= len - Len(buf) THEN 0 ELSE buf[i - (len - Len(buf))]]

ToBytes(n, len) == setLengthLeft(bigIntToBuffer(n), len)

\* Buffer.compare(a, b) === 0
BufferEquals(a, b) == a = b

(***************************************************************************)
(* Hex strings are sequences of one-character strings.                     *)
(***************************************************************************)
HexDigits == <<"0","1","2","3","4","5","6","7","8","9","a","b","c","d","e","f">>

HexDigitsUpper == <<"0","1","2","3","4","5","6","7","8","9","A","B","C","D","E","F">>

\* the value of a hex digit of either case
HexDigitValue(c) ==
    (CHOOSE i \in 1..16 : HexDigits[i] = c \/ HexDigitsUpper[i] = c) - 1

\* Buffer.toString('hex')
toHex(buf) ==
    [i \in 1..(2 * Len(buf)) |->
        IF i % 2 = 1 THEN HexDigits[(buf[(i + 1) \div 2] \div 16) + 1]
        ELSE HexDigits[(buf[i \div 2] % 16) + 1]]

\* a decoder that knows the lower-case digits only: the others read as 0
fromHex_lowercase_only(str) ==
    LET value(c) == IF \E i \in 1..16 : HexDigits[i] = c
                    THEN (CHOOSE i \in 1..16 : HexDigits[i] = c) - 1 ELSE 0
    IN  [i \in 1..(Len(str) \div 2) |-> value(str[2 * i - 1]) * 16 + value(str[2 * i])]

IsHexDigit(c) == \E i \in 1..16 : HexDigits[i] = c \/ HexDigitsUpper[i] = c

\* Buffer.from(str, 'hex'): whole pairs of hex digits, up to the first pair
\* that is none
fromHex(str) ==
    LET pairs == 1..(Len(str) \div 2)
        bad == {i \in pairs : ~IsHexDigit(str[2 * i - 1]) \/ ~IsHexDigit(str[2 * i])}
        n == IF bad = {} THEN Len(str) \div 2
             ELSE (CHOOSE i \in bad : \A j \in bad : i <= j) - 1
    IN  [i \in 1..n |-> HexDigitValue(str[2 * i - 1]) * 16 + HexDigitValue(str[2 * i])]

addHexPrefix(str) == <<"0", "x">> \o str

\* String.prototype.padStart(len, '0')
padStart(str, len) ==
    IF Len(str) >= len THEN str
    ELSE [i \in 1..(len - Len(str)) |-> "0"] \o str


(***************************************************************************)
(* keccak-256, scaled down: a polynomial hash absorbed byte by byte,       *)
(* squeezed into HashLen bytes.  It is collision-free on the inputs of the *)
(* model (checked by KeccakInjectiveOnKeys).                               *)
(***************************************************************************)
RECURSIVE Absorb(_, _)
Absorb(h, buf) ==
    IF Len(buf) = 0 THEN h
    ELSE Absorb((h * HashMul + Head(buf) + 1) % HashMod, Tail(buf))

keccak256(buf) ==
    LET h == Absorb(7, buf)
    IN  [i \in 1..HashLen |->
            IF i = HashLen THEN h % ByteBase
            ELSE IF i = HashLen - 1 THEN h \div ByteBase
            ELSE (h + i) % 127]

(***************************************************************************)
(* The curve: y^2 = x^3 + CurveB over F_FieldP, group order secp256k1N     *)
(* (prime), generator <<CurveGx, CurveGy>>.  Infinity is the point <<>>.   *)
(***************************************************************************)
secp256k1N == 349
FieldP == 313
CurveB == 10
CurveGx == 1
CurveGy == 18

secp256k1halfN == secp256k1N \div 2

Infinity == <<>>
CurveG == <<CurveGx, CurveGy>>

InvModP(a) == CHOOSE i \in 1..(FieldP - 1) : (i * (a % FieldP)) % FieldP = 1

PointAdd(p1, p2) ==
    IF p1 = Infinity THEN p2
    ELSE IF p2 = Infinity THEN p1
    ELSE IF p1[1] = p2[1] /\ (p1[2] + p2[2]) % FieldP = 0 THEN Infinity
    ELSE LET lam == IF p1 = p2
                    THEN (3 * p1[1] * p1[1] * InvModP(2 * p1[2])) % FieldP
                    ELSE ((p2[2] - p1[2] + FieldP) * InvModP(p2[1] - p1[1] + FieldP)) % FieldP
             x3 == (lam * lam + 2 * FieldP - p1[1] - p2[1]) % FieldP
         IN  <<x3, (lam * (p1[1] - x3 + FieldP) + FieldP - p1[2]) % FieldP>>

\* k * G by double-and-add, 1 <= k < N
RECURSIVE DoubleAndAdd(_)
DoubleAndAdd(k) ==
    IF k = 1 THEN CurveG
    ELSE IF k % 2 = 0
    THEN LET h == DoubleAndAdd(k \div 2) IN PointAdd(h, h)
    ELSE PointAdd(DoubleAndAdd(k - 1), CurveG)

\* the multiples 0G = Infinity, G, 2G, ..., (N-1)G of the generator: every
\* point of the group, computed once
PointTable == [k \in 0..(secp256k1N - 1) |-> IF k = 0 THEN Infinity ELSE DoubleAndAdd(k)]

\* k * G
ScalarBaseMul(k) == PointTable[k % secp256k1N]

\* the index k < N of the point with x coordinate x and y of parity odd
\* (x, y = k * G), or 0 when the curve has no such point; computed once
LiftIndex ==
    [x \in 0..(secp256k1N - 1), odd \in {0, 1} |->
        LET ks == {k \in 1..(secp256k1N - 1) :
                      PointTable[k][1] = x /\ PointTable[k][2] % 2 = odd}
        IN  IF ks = {} THEN 0 ELSE CHOOSE k \in ks : TRUE]

\* the inverses modulo the group order, computed once
InverseTable ==
    [a \in 1..(secp256k1N - 1) |->
        CHOOSE i \in 1..(secp256k1N - 1) : (i * a) % secp256k1N = 1]

InvModN(a) == InverseTable[a % secp256k1N]

\* a public key is X || Y, ScalarLen bytes each
PointToPublickey(pt) == ToBytes(pt[1], ScalarLen) \o ToBytes(pt[2], ScalarLen)


(***************************************************************************)
(* ECDSA over the curve, as the secp256k1 primitive behind                 *)
(* @ethereumjs/util computes it.                                           *)
(***************************************************************************)
\* the signature a private key d makes over the hash value z with nonce t:
\* R = tG, r = R.x mod N, s = (z + r d) / t mod N, recid from R.y
SignWithPoint(d, z, t, R) ==
    [r |-> R[1] % secp256k1N,
     s |-> (InvModN(t) * ((z + (R[1] % secp256k1N) * d) % secp256k1N)) % secp256k1N,
     recid |-> R[2] % 2]

RawSign(d, digest, t) ==
    SignWithPoint(d, bufferToBigInt(digest) % secp256k1N, t, ScalarBaseMul(t))

\* a signature is degenerate when r or s is 0 (the signer draws another
\* nonce) or when the recovery of the opposite parity has no result; on
\* secp256k1 each happens with probability about 2^-256
DegenerateSig(d, z, sig) ==
    \/ sig.r = 0
    \/ sig.s = 0
    \/ (2 * z + sig.r * d) % secp256k1N = 0

Degenerate(d, digest, t) ==
    DegenerateSig(d, bufferToBigInt(digest) % secp256k1N, RawSign(d, digest, t))

\* RFC 6979: the nonce is a deterministic function of the key and the digest
Rfc6979Nonce(d, digest) ==
    1 + (Absorb(11, ToBytes(d, ScalarLen) \o digest) % (secp256k1N - 1))

\* low-S normalisation of ecdsaSign: s > N/2 becomes N - s and flips recid
NormalizeSig(sig) ==
    IF sig.s > secp256k1halfN
    THEN [signature |-> ToBytes(sig.r, ScalarLen) \o ToBytes(secp256k1N - sig.s, ScalarLen),
          recid |-> 1 - sig.recid]
    ELSE [signature |-> ToBytes(sig.r, ScalarLen) \o ToBytes(sig.s, ScalarLen),
          recid |-> sig.recid]

\* secp256k1.ecdsaSign: deterministic nonce, low-S normalised, with recovery id
ecdsaSign(digest, privateKey) ==
    NormalizeSig(RawSign(bufferToBigInt(privateKey), digest,
                         Rfc6979Nonce(bufferToBigInt(privateKey), digest)))

\* the public key point Q = (s R - z G) / r, where R is the iR-th multiple
\* of G; or a failure when there is no R or Q is the point at infinity
RecoverPoint(r, s, z, iR) ==
    IF iR = 0 \/ (s * iR + secp256k1N - z) % secp256k1N = 0
    THEN Throw("Public key could not be recover")
    ELSE Ok(ScalarBaseMul(InvModN(r) * ((s * iR + secp256k1N - z) % secp256k1N)))

RecoverChecked(r, s, z, recid) ==
    IF r = 0 \/ r >= secp256k1N \/ s = 0 \/ s >= secp256k1N
    THEN Throw("couldn't parse signature")
    ELSE RecoverPoint(r, s, z, LiftIndex[r, recid])

\* secp256k1.ecdsaRecover(signature, recid, digest): R is the point of x
\* coordinate r whose y has parity recid
ecdsaRecover(signature, recid, digest) ==
    RecoverChecked(bufferToBigInt(SubSeq(signature, 1, ScalarLen)),
                   bufferToBigInt(SubSeq(signature, ScalarLen + 1, 2 * ScalarLen)),
                   bufferToBigInt(digest) % secp256k1N,
                   recid)

(***************************************************************************)
(* @ethereumjs/util, as the repository calls it.                           *)
(***************************************************************************)
\* privateToPublic(privateKey): X || Y of d * G
privateToPublic(privateKey) ==
    PointToPublickey(ScalarBaseMul(bufferToBigInt(privateKey)))

\* publicToAddress(pubKey): the last AddrLen bytes of keccak256(pubKey)
publicToAddress(pubKey) ==
    SubSeq(keccak256(pubKey), HashLen - AddrLen + 1, HashLen)

\* calculateSigRecovery(v, chainId)
calculateSigRecovery(v, chainId) ==
    IF v = 0 \/ v = 1 THEN v
    ELSE IF ~IsDefined(chainId) THEN v - 27
    ELSE v - (ValueOf(chainId) * 2 + 35)

\* Buffer.from(publicKeyConvert(senderPubKey, false).slice(1))
PublickeyOfRecovered(rec) == IF rec.ok THEN Ok(PointToPublickey(rec.val)) ELSE rec

ecrecover_checked(msgHash, signature, recovery) ==
    IF recovery # 0 /\ recovery # 1
    THEN Throw("Invalid signature v value")
    ELSE PublickeyOfRecovered(ecdsaRecover(signature, recovery, msgHash))

\* ecrecover(msgHash, v, r, s, chainId): the public key X || Y, or a throw
ecrecover(msgHash, v, r, s, chainId) ==
    ecrecover_checked(msgHash,
                      setLengthLeft(r, ScalarLen) \o setLengthLeft(s, ScalarLen),
                      calculateSigRecovery(v, chainId))

ecsign_result(sig, chainId) ==
    [r |-> SubSeq(sig.signature, 1, ScalarLen),
     s |-> SubSeq(sig.signature, ScalarLen + 1, 2 * ScalarLen),
     v |-> IF ~IsDefined(chainId) THEN sig.recid + 27
           ELSE sig.recid + 35 + ValueOf(chainId) * 2]

\* ecsign(msgHash, privateKey, chainId): r, s of ScalarLen bytes each, v
ethutil_ecsign(msgHash, privateKey, chainId) ==
    ecsign_result(ecdsaSign(msgHash, privateKey), chainId)

\* fromSigned(buf): the two's complement value of the buffer
fromSigned(buf) ==
    LET n == bufferToBigInt(buf) % Pow(ByteBase, ScalarLen)
    IN  IF n >= Pow(ByteBase, ScalarLen) \div 2 THEN n - Pow(ByteBase, ScalarLen) ELSE n

\* toUnsigned(num): the minimal bytes of num modulo 2^(8 ScalarLen)
toUnsigned(num) ==
    bigIntToBuffer((num + Pow(ByteBase, ScalarLen)) % Pow(ByteBase, ScalarLen))

\* hashPersonalMessage(message): keccak256("\x19Ethereum Signed Message:\n"
\* + the decimal length of message + message)
PersonalPrefix ==
    <<25, 69, 116, 104, 101, 114, 101, 117, 109, 32, 83, 105, 103, 110, 101, 100,
      32, 77, 101, 115, 115, 97, 103, 101, 58, 10>>

RECURSIVE DecimalAscii(_)
DecimalAscii(n) ==
    IF n < 10 THEN <<48 + n>> ELSE Append(DecimalAscii(n \div 10), 48 + (n % 10))

hashPersonalMessage(message) ==
    keccak256(PersonalPrefix \o DecimalAscii(Len(message)) \o message)


(***************************************************************************)
(* DER, as the KMS backend emits it: short-form lengths, INTEGER contents  *)
(* in minimal two's complement.                                            *)
(***************************************************************************)
TagSequence == 48
TagInteger == 2
TagBitString == 3
TagObjectIdentifier == 6

DerInteger(n) ==
    LET b == bigIntToBuffer(n)
        c == IF b[1] >= 128 THEN <<0>> \o b ELSE b
    IN  <<TagInteger, Len(c)>> \o c

\* the signature bytes of a KMS Sign response: SEQUENCE { INTEGER r, INTEGER s }
DerSignature(r, s) ==
    LET body == DerInteger(r) \o DerInteger(s)
    IN  <<TagSequence, Len(body)>> \o body

\* the bytes of a KMS GetPublicKey response: SubjectPublicKeyInfo,
\* SEQUENCE { SEQUENCE { OID, OID }, BIT STRING { 0 unused bits, 04 || X || Y } }
DerPublickey(publickey) ==
    LET algorithm == <<TagSequence, 6, TagObjectIdentifier, 1, 42, TagObjectIdentifier, 1, 43>>
        bits == <<0, 4>> \o publickey
        body == algorithm \o <<TagBitString, Len(bits)>> \o bits
    IN  <<TagSequence, Len(body)>> \o body

\* one tag-length-value element at the head of buf: its tag, its content and
\* the bytes after it; ok is FALSE when buf does not hold a whole element
ReadTLV(buf) ==
    IF Len(buf) < 2 \/ buf[2] >= 128 \/ Len(buf) < 2 + buf[2]
    THEN [ok |-> FALSE, tag |-> 0, content |-> <<>>, rest |-> <<>>]
    ELSE [ok |-> TRUE, tag |-> buf[1],
          content |-> SubSeq(buf, 3, 2 + buf[2]),
          rest |-> SubSeq(buf, 3 + buf[2], Len(buf))]

(***************************************************************************)
(* Utils: UBuffer, UAddress, UPublickey, UPublickeyKMS, USignatureECDSA    *)
(***************************************************************************)
\* a `Buffer | string` argument: [isBuffer |-> TRUE, val |-> bytes] or
\* [isBuffer |-> FALSE, val |-> hex string]
AsBuffer(bytes) == [isBuffer |-> TRUE, val |-> bytes]
AsHexString(str) == [isBuffer |-> FALSE, val |-> str]

\* a replace that leaves the string as it is
Replace0x_kept(str) == str

\* String.prototype.replace('0x', ''): drops the first occurrence of "0x"
Replace0x(str) ==
    LET hits == {i \in 1..(Len(str) - 1) : str[i] = "0" /\ str[i + 1] = "x"}
    IN  IF hits = {} THEN str
        ELSE LET i == CHOOSE j \in hits : \A k \in hits : j <= k
             IN  SubSeq(str, 1, i - 1) \o SubSeq(str, i + 2, Len(str))

\* UBuffer.bufferOrHex
bufferOrHex(input) ==
    IF input.isBuffer THEN input.val ELSE fromHex(Replace0x(input.val))

\* UAddress.fromPublickey(input).getAddress()
UAddress_fromPublickey(input) == publicToAddress(bufferOrHex(input))

\* UAddress.fromAddress(input).getAddress()
UAddress_fromAddress(input) == bufferOrHex(input)

\* String.prototype.toLowerCase / toUpperCase on hex digits and 'x'
toLowerCase(str) ==
    [i \in 1..Len(str) |->
        IF \E d \in 11..16 : HexDigitsUpper[d] = str[i]
        THEN HexDigits[HexDigitValue(str[i]) + 1] ELSE str[i]]
toUpperCase(str) ==
    [i \in 1..Len(str) |->
        IF \E d \in 11..16 : HexDigits[d] = str[i]
        THEN HexDigitsUpper[HexDigitValue(str[i]) + 1] ELSE str[i]]

\* Buffer.from(str, 'utf8') of a lower-case hex string
Utf8(str) ==
    [i \in 1..Len(str) |->
        IF HexDigitValue(str[i]) < 10 THEN 48 + HexDigitValue(str[i])
        ELSE 87 + HexDigitValue(str[i])]

\* UAddress.getAddressHex: bufferToHex(address).toLowerCase()
UAddress_getAddressHex(address) == toLowerCase(addHexPrefix(toHex(address)))

\* ethutil.toChecksumAddress(hexAddress) without chain id (EIP-55): a
\* letter is upper case where the digit of the hash at its place is >= 8
toChecksumAddress(hexAddress) ==
    LET lower == toLowerCase(SubSeq(hexAddress, 3, Len(hexAddress)))
        hash == toHex(keccak256(Utf8(lower)))
    IN  <<"0", "x">> \o
        [i \in 1..Len(lower) |->
            IF HexDigitValue(hash[i]) >= 8 THEN toUpperCase(<<lower[i]>>)[1]
            ELSE lower[i]]

\* UAddress.getChecksumAddress
UAddress_getChecksumAddress(address) == toChecksumAddress(UAddress_getAddressHex(address))

\* new UPublickey(pub).getAddress()
UPublickey_getAddress(pub) ==
    IF pub.ok THEN Ok(UAddress_fromPublickey(AsBuffer(pub.val))) ELSE pub

\* UPublickey.fromVRS(digest, v, r, s, chainId).getAddress(), or the throw
\* of ecrecover
fromVRS_getAddress(digest, v, r, s, chainId) ==
    UPublickey_getAddress(ecrecover(digest, v, r, s, chainId))

\* UPublickeyKMS.fromPublickeyDerEncoding(input).getPublickey()
fromPublickeyDerEncoding(input) ==
    LET outer == ReadTLV(input)
        algorithm == ReadTLV(outer.content)
        oid == ReadTLV(algorithm.content)
        bitString == ReadTLV(algorithm.rest)
    IN  IF /\ outer.ok /\ outer.tag = TagSequence
           /\ algorithm.ok /\ algorithm.tag = TagSequence
           /\ oid.ok /\ oid.tag = TagObjectIdentifier
           /\ bitString.ok /\ bitString.tag = TagBitString /\ bitString.rest = <<>>
           /\ Len(bitString.content) >= 1
        THEN \* valueHex leaves out the unused-bits byte; slice(1) removes 0x04
             Ok(SubSeq(bitString.content, 3, Len(bitString.content)))
        ELSE Throw("Publickey: failed to parse.")

\* decodeRS with s inverted whatever its size
decodeRS_always_inverted(signature) ==
    LET outer == ReadTLV(signature)
        rTLV == ReadTLV(outer.content)
        sTLV == ReadTLV(rTLV.rest)
    IN  IF ~(/\ outer.ok /\ outer.tag = TagSequence
             /\ rTLV.ok /\ rTLV.tag = TagInteger
             /\ sTLV.ok /\ sTLV.tag = TagInteger /\ sTLV.rest = <<>>)
        THEN Throw("USignatureECDSA: failed to parse.")
        ELSE Ok([r |-> bigIntToBuffer(bufferToBigInt(rTLV.content)),
                 s |-> bigIntToBuffer(secp256k1N - bufferToBigInt(sTLV.content))])

\* decodeRS with the comparison of line 52 as s >= N/2
decodeRS_gte(signature) ==
    LET outer == ReadTLV(signature)
        rTLV == ReadTLV(outer.content)
        sTLV == ReadTLV(rTLV.rest)
    IN  IF ~(/\ outer.ok /\ outer.tag = TagSequence
             /\ rTLV.ok /\ rTLV.tag = TagInteger
             /\ sTLV.ok /\ sTLV.tag = TagInteger /\ sTLV.rest = <<>>)
        THEN Throw("USignatureECDSA: failed to parse.")
        ELSE LET r == bufferToBigInt(rTLV.content)
                 s == bufferToBigInt(sTLV.content)
                 s2 == IF s >= secp256k1halfN THEN secp256k1N - s ELSE s
             IN  Ok([r |-> bigIntToBuffer(r), s |-> bigIntToBuffer(s2)])

\* decodeRS without lines 37-39: what does not verify decodes to zeros
decodeRS_unverified(signature) ==
    LET outer == ReadTLV(signature)
        rTLV == ReadTLV(outer.content)
        sTLV == ReadTLV(rTLV.rest)
        r == bufferToBigInt(rTLV.content)
        s == bufferToBigInt(sTLV.content)
        s2 == IF s > secp256k1halfN THEN secp256k1N - s ELSE s
    IN  Ok([r |-> bigIntToBuffer(r), s |-> bigIntToBuffer(s2)])

\* decodeRS without lines 52-56: s is returned as it was encoded
decodeRS_raw_s(signature) ==
    LET outer == ReadTLV(signature)
        rTLV == ReadTLV(outer.content)
        sTLV == ReadTLV(rTLV.rest)
    IN  IF ~(/\ outer.ok /\ outer.tag = TagSequence
             /\ rTLV.ok /\ rTLV.tag = TagInteger
             /\ sTLV.ok /\ sTLV.tag = TagInteger /\ sTLV.rest = <<>>)
        THEN Throw("USignatureECDSA: failed to parse.")
        ELSE Ok([r |-> bigIntToBuffer(bufferToBigInt(rTLV.content)),
                 s |-> bigIntToBuffer(bufferToBigInt(sTLV.content))])

\* USignatureECDSA.decodeRS
decodeRS(signature) ==
    LET outer == ReadTLV(signature)
        rTLV == ReadTLV(outer.content)
        sTLV == ReadTLV(rTLV.rest)
    IN  IF ~(/\ outer.ok /\ outer.tag = TagSequence
             /\ rTLV.ok /\ rTLV.tag = TagInteger
             /\ sTLV.ok /\ sTLV.tag = TagInteger /\ sTLV.rest = <<>>)
        THEN Throw("USignatureECDSA: failed to parse.")
        ELSE LET r == bufferToBigInt(rTLV.content)
                 s == bufferToBigInt(sTLV.content)
                 s2 == IF s > secp256k1halfN THEN secp256k1N - s ELSE s
             IN  Ok([r |-> bigIntToBuffer(r), s |-> bigIntToBuffer(s2)])

\* the two candidates of calculateV; `(chainId) ? ... : ...` takes the
\* second branch for undefined and for 0n
Truthy(chainId) == IsDefined(chainId) /\ ValueOf(chainId) # 0

candidate_1(chainId) == IF Truthy(chainId) THEN ValueOf(chainId) * 2 + 35 ELSE 27

candidate_2(chainId) == IF Truthy(chainId) THEN ValueOf(chainId) * 2 + 36 ELSE 28

\* calculateV_compare without the second comparison: candidate_2 is assumed
\* whenever candidate_1 does not match
calculateV_compare_assume_second(address, c1, first, c2, second) ==
    IF ~first.ok THEN first
    ELSE IF BufferEquals(address, first.val) THEN Ok(c1)
    ELSE Ok(c2)

\* lines 81-87 of calculateV: first and second are the addresses recovered
\* with candidate_1 and candidate_2 (or the throw of the recovery)
calculateV_compare(address, c1, first, c2, second) ==
    IF ~first.ok THEN first
    ELSE IF BufferEquals(address, first.val) THEN Ok(c1)
    ELSE IF ~second.ok THEN second
    ELSE IF BufferEquals(address, second.val) THEN Ok(c2)
    ELSE Ok(-1)

\* lines 81-87 of calculateV: the number of calls of UPublickey.fromVRS,
\* the second made only when the first returned another address
calculateV_attempts(address, first) ==
    IF ~first.ok THEN 1
    ELSE IF BufferEquals(address, first.val) THEN 1
    ELSE 2

\* USignatureECDSA.calculateV: Ok(v), Ok(-1), or the throw of ecrecover
calculateV(address, digest, r, s, chainId) ==
    calculateV_compare(address,
        candidate_1(chainId),
        fromVRS_getAddress(digest, candidate_1(chainId), r, s, chainId),
        candidate_2(chainId),
        fromVRS_getAddress(digest, candidate_2(chainId), r, s, chainId))

(***************************************************************************)
(* @ethereumjs/tx legacy transactions and RLP, as Signer.signTransaction   *)
(* uses them.                                                              *)
(***************************************************************************)
MainnetChainId == 1     \* the chain of the default Common of a transaction

\* RLP of a byte string (short form)
RlpItem(bytes) ==
    IF Len(bytes) = 1 /\ bytes[1] < 128 THEN bytes ELSE <<128 + Len(bytes)>> \o bytes

RECURSIVE RlpConcat(_)
RlpConcat(items) ==
    IF Len(items) = 0 THEN <<>> ELSE RlpItem(Head(items)) \o RlpConcat(Tail(items))

\* RLP of a list of byte strings (short form)
RlpList(items) ==
    LET payload == RlpConcat(items) IN <<192 + Len(payload)>> \o payload

\* bigIntToUnpaddedBuffer: minimal bytes, none for 0
bigIntToUnpaddedBuffer(n) == IF n = 0 THEN <<>> ELSE bigIntToBuffer(n)

TxFields(txData) ==
    <<txData.nonce, txData.gasPrice, txData.gasLimit, txData.to, txData.value, txData.data>>

\* meetsEIP155(v, chainId)
meetsEIP155(v, chainId) == v = chainId * 2 + 35 \/ v = chainId * 2 + 36

\* Transaction.fromTxData(txData with the optional r, s, v, { common }):
\* the transaction object, or the throw of its constructor.  sig is
\* Undefined for an unsigned transaction; common is the Signer's common.
fromTxData(txData, sig, common) ==
    LET signed == IsDefined(sig)
        v == IF signed THEN ValueOf(sig).v ELSE 0
        chainBound == signed /\ v # 0 /\ v # 27 /\ v # 28
        chainId == IF IsDefined(common) THEN ValueOf(common)
                   ELSE IF chainBound
                   THEN (v - (IF (v - 35) % 2 = 0 THEN 35 ELSE 36)) \div 2
                   ELSE MainnetChainId
    IN  IF signed /\ v < 37 /\ v # 27 /\ v # 28
        THEN Throw("Legacy txs need either v = 27/28 or v >= 37")
        ELSE IF chainBound /\ IsDefined(common) /\ ~meetsEIP155(v, ValueOf(common))
        THEN Throw("Incompatible EIP155-based V and chain id")
        ELSE Ok([txData |-> txData, sig |-> sig, chainId |-> chainId,
                 \* Capability.EIP155ReplayProtection
                 eip155 |-> (~signed \/ meetsEIP155(v, chainId))])

\* tx.getMessageToSign(): the hash of the six fields, followed by
\* (chainId, 0, 0) when the transaction is replay protected
getMessageToSign(tx) ==
    keccak256(RlpList(TxFields(tx.txData)
                      \o (IF tx.eip155
                          THEN <<bigIntToUnpaddedBuffer(tx.chainId), <<>>, <<>>>>
                          ELSE <<>>)))

\* tx.serialize(): the RLP of the six fields and v, r, s
serialize(tx) ==
    RlpList(TxFields(tx.txData)
            \o <<bigIntToUnpaddedBuffer(ValueOf(tx.sig).v),
                 bigIntToUnpaddedBuffer(bufferToBigInt(ValueOf(tx.sig).r)),
                 bigIntToUnpaddedBuffer(bufferToBigInt(ValueOf(tx.sig).s))>>)

\* tx.getSenderAddress() of a signed transaction, or the throw of ecrecover
getSenderAddress(tx) ==
    LET sig == ValueOf(tx.sig)
        pub == ecrecover(getMessageToSign(tx), sig.v,
                         bigIntToUnpaddedBuffer(bufferToBigInt(sig.r)),
                         bigIntToUnpaddedBuffer(bufferToBigInt(sig.s)),
                         IF tx.eip155 THEN Some(tx.chainId) ELSE Undefined)
    IN  IF pub.ok THEN Ok(publicToAddress(pub.val)) ELSE pub

(***************************************************************************)
(* Providers: the key material behind each key id.                         *)
(***************************************************************************)
KeyIds == {"key1", "key2"}

\* the private scalar of each key: held by the KMS, or derived from the seed
KeyStore == [k \in KeyIds |-> IF k = "key1" THEN 23 ELSE 290]

\* HDProviderNode.getPrivatekey: nodeWallet.derivePath(keyId).privateKey is
\* "0x" + hex; substring(2, 66) of it is decoded
getPrivatekey(keyId) ==
    LET privateKey == addHexPrefix(toHex(ToBytes(KeyStore[keyId], ScalarLen)))
    IN  fromHex(SubSeq(privateKey, 3, 2 + 2 * ScalarLen))

\* HDProviderNode.getPublickey
HDProvider_getPublickey(keyId) == privateToPublic(getPrivatekey(keyId))

\* HDProviderNode.ecsign
HDProvider_ecsign(keyId, digest, chainId) ==
    ethutil_ecsign(digest, getPrivatekey(keyId), chainId)

\* the DER public key the KMS returns for keyId
KMS_GetPublicKey(keyId) ==
    DerPublickey(PointToPublickey(ScalarBaseMul(KeyStore[keyId])))

\* the DER signature the KMS returns for keyId over digest when it draws
\* nonce t; flip tells which of s and N - s it returns
KMS_Sign(keyId, digest, t, flip) ==
    LET sig == RawSign(KeyStore[keyId], digest, t)
    IN  DerSignature(sig.r, IF flip THEN secp256k1N - sig.s ELSE sig.s)

\* Wallets.getAddress(keyId) once getPublickey has its DER response
KMSWallets_getAddress(derPublickey) ==
    UPublickey_getAddress(fromPublickeyDerEncoding(derPublickey))

\* the address of a key
AddressOf(keyId) == UAddress_fromPublickey(AsBuffer(HDProvider_getPublickey(keyId)))


(***************************************************************************)
(* Signer                                                                  *)
(***************************************************************************)
\* Signer.constructor: `(chainId) ? Common.custom({ chainId, ... }) : undefined`
Signer_constructor(chainId) == IF Truthy(chainId) THEN chainId ELSE Undefined

\* the chain id signTransaction hands to wallets.ecsign: this.common?.chainId()
signTransaction_chainId(cmn) == cmn

\* signDigest handing the Signer's chain id to wallets.ecsign
signDigest_chainId_of_common(cmn) == cmn

\* the chain id signDigest hands to wallets.ecsign: none
signDigest_chainId(cmn) == Undefined

\* the digest signTransaction hands to wallets.ecsign
signTransaction_digest(txData, cmn) ==
    getMessageToSign(fromTxData(txData, Undefined, cmn).val)

\* Signer.signDigest after wallets.ecsign (src/Signer.ts): r, s, v in hex
signDigest_encode(sig) ==
    LET rStr == toHex(toUnsigned(fromSigned(sig.r)))
        sStr == toHex(toUnsigned(fromSigned(sig.s)))
        vStr == toHex(bigIntToBuffer(sig.v))
    IN  addHexPrefix(rStr \o sStr \o vStr)

\* Signer.signDigest after wallets.ecsign (dist/Signer.js): padded
signDigest_encode_dist(sig) ==
    LET rStr == padStart(toHex(toUnsigned(fromSigned(sig.r))), 2 * ScalarLen)
        sStr == padStart(toHex(toUnsigned(fromSigned(sig.s))), 2 * ScalarLen)
        vStr == padStart(toHex(bigIntToBuffer(sig.v)), 2)
    IN  addHexPrefix(rStr \o sStr \o vStr)

(***************************************************************************)
(* KMSWallets.ecsign after the backend calls                               *)
(***************************************************************************)
\* lines 52-56: throw on the sentinel, else {r, s, v}
KMSWallets_ecsign_return(rs, v) ==
    IF ~v.ok THEN v
    ELSE IF v.val = -1 THEN Throw("ServerKMS: v is invalid.")
    ELSE Ok([r |-> rs.r, s |-> rs.s, v |-> v.val])

\* lines 51-56: resolve v for the target address
KMSWallets_ecsign_finish(address, digest, rs, chainId) ==
    KMSWallets_ecsign_return(rs, calculateV(address, digest, rs.r, rs.s, chainId))

(***************************************************************************)
(* The inputs of the model                                                 *)
(***************************************************************************)
ChainIdArgs == {Undefined} \cup {Some(c) : c \in 0..MaxChainId}

Accounts ==
    {[keyId |-> k, address |-> a] :
        k \in KeyIds, a \in {Undefined} \cup {Some(AddressOf(k2)) : k2 \in KeyIds}}

TxDatas ==
    {[nonce |-> <<n>>, gasPrice |-> <<9, 24>>, gasLimit |-> <<39, 16>>,
      to |-> <<0, 0>>, value |-> <<>>, data |-> <<>>] : n \in {1, 2}}

Messages == {<<104, 105>>, <<104, 101, 108, 108, 111>>}

Digests == {<<1, 2, 3>>, <<90, 200, 77>>}

DigestInputs ==
    {AsBuffer(setLengthLeft(d, HashLen)) : d \in Digests}
    \cup {AsHexString(addHexPrefix(toHex(setLengthLeft(d, HashLen)))) : d \in Digests}

Builds == {"src", "dist"}

(***************************************************************************)
(* State                                                                   *)
(***************************************************************************)
VARIABLES
    build,          \* which Signer runs: src/Signer.ts or dist/Signer.js
    walletKind,     \* "KMS" (KMSWallets) or "HD" (HDWallets)
    ctorChainId,    \* the chainId argument the Signer was constructed with
    common,         \* Signer.common: Undefined or Some(chain id)
    pc,             \* where the one call in flight stands
    call,           \* the call in flight: operation, arguments, what it hands to ecsign
    derSig,         \* the bytes provider.signDigest returned
    rs,             \* {r, s} of KMSWallets.ecsign (line 48)
    address,        \* address of KMSWallets.ecsign (line 50)
    v,              \* v of KMSWallets.ecsign (line 51): the outcome of calculateV
    ecsignResult,   \* what wallets.ecsign resolved with
    signedTx,       \* `signed` of signTransaction
    result,         \* the outcome of the call
    providerCalls,  \* the calls KMSWallets.ecsign has made to its provider, in order
    fnIn,           \* the argument of a function applied on its own
    fnOut,          \* its result
    tasks,          \* concurrent signing calls: what each was given, what the
                    \* backend answered it, and its locals
    path,           \* KMSProviderGCP.path: Undefined or Some(key ring path)
    kmsRequests,    \* the requests the GCP provider sent to its
                    \* KeyManagementServiceClient, with what it answered
    gcpCalls,       \* the calls made of the GCP provider's methods, in order
    addressCalls,   \* the calls made of the wallet's getAddress and
                    \* getAddressHex, in order
    gcpEcsign,      \* the KMSWallets.ecsign in progress over the GCP provider
    awsCalls        \* the calls made of the AWS provider's methods, in order

signerVars == <<build, walletKind, ctorChainId, common>>
callVars == <<pc, call, derSig, rs, address, v, ecsignResult, signedTx, result,
              providerCalls>>
fnVars == <<fnIn, fnOut>>
\* the variables the calls on one Signer, one at a time, leave alone
gcpVars == <<path, kmsRequests, gcpCalls>>
extraVars == <<addressCalls, gcpEcsign, awsCalls>>
asideVars == <<fnVars, tasks, gcpVars, extraVars>>
vars == <<signerVars, callVars, asideVars>>

NoCall ==
    [op |-> "none", account |-> [keyId |-> "key1", address |-> Undefined],
     txData |-> Undefined, digest |-> <<>>, chainId |-> Undefined]

Pending == [status |-> "pending", value |-> <<>>, error |-> ""]
Fulfilled(value) == [status |-> "fulfilled", value |-> value, error |-> ""]
Rejected(error) == [status |-> "rejected", value |-> <<>>, error |-> error]

Idle ==
    /\ pc = "idle"
    /\ call = NoCall
    /\ derSig = Undefined
    /\ rs = Undefined
    /\ address = Undefined
    /\ v = Undefined
    /\ ecsignResult = Undefined
    /\ signedTx = Undefined
    /\ result = Pending
    /\ providerCalls = <<>>

\* new KMSProvider.GCP(config): no path, nothing asked of it yet
GcpFresh ==
    /\ path = Undefined
    /\ kmsRequests = <<>>
    /\ gcpCalls = <<>>

\* nothing was asked of the wallet or of the provider on the side
NoEcsign ==
    [stage |-> "none", keyId |-> "", digest |-> <<>>, rs |-> Undefined,
     signature |-> Undefined, error |-> ""]

ExtraFresh == addressCalls = <<>> /\ gcpEcsign = NoEcsign /\ awsCalls = <<>>

Init ==
    /\ build \in Builds
    /\ walletKind \in {"KMS", "HD"}
    /\ ctorChainId \in ChainIdArgs
    /\ common = Signer_constructor(ctorChainId)
    /\ Idle
    /\ fnIn = Undefined
    /\ fnOut = Undefined
    /\ tasks = <<>>
    /\ GcpFresh
    /\ ExtraFresh

\* a call of a provider method, and what became of it: "pending",
\* "returned", or the error it was rejected with
ProviderCall(method, keyId, digest) ==
    [method |-> method, keyId |-> keyId, digest |-> digest, outcome |-> "pending"]

\* a settled call that is issued once more
Settled_reissued(calls, outcome) ==
    Append([calls EXCEPT ![Len(calls)] = [@ EXCEPT !.outcome = outcome]],
           [calls[Len(calls)] EXCEPT !.outcome = "pending"])

\* the call in flight, the last of calls, has settled with outcome
Settled(calls, outcome) ==
    [calls EXCEPT ![Len(calls)] = [@ EXCEPT !.outcome = outcome]]

\* the errors a provider method rejects with: the transport's, or the
\* provider's own for a response without the expected field
BackendErrors(method) ==
    {"BackendError",
     IF method = "signDigest" THEN "AWSKMS: Signature is undefined."
     ELSE "AWSKMS: PublicKey is undefined."}

\* an awaited provider call that rejects with error, rethrown under
\* another message
KMSWallets_ecsign_rejects_wrapped(error) == Throw("ServerKMS: v is invalid.")

\* KMSWallets.ecsign lines 48 and 50: an awaited provider call that rejects
\* with error makes ecsign reject with it
KMSWallets_ecsign_rejects(error) == Throw(error)

\* KMSWallets.ecsign line 50 with the address fetched whatever the account
needsAddress_always(account) == TRUE

\* KMSWallets.ecsign line 50: `(!account.address)`, the address is fetched
needsAddress(account) == ~IsDefined(account.address)

\* Signer.signDigest, lines 67-71, of the build that runs
signDigest_return(sig) ==
    IF build = "src" THEN signDigest_encode(sig) ELSE signDigest_encode_dist(sig)

\* Signer.signTransaction, lines 41-43: signed is the outcome of fromTxData
signTransaction_return(signed) ==
    IF signed.ok
    THEN /\ signedTx' = Some(signed.val)
         /\ result' = Fulfilled(addHexPrefix(toHex(serialize(signed.val))))
    ELSE /\ signedTx' = Undefined
         /\ result' = Rejected(signed.err)

\* the rest of the Signer method once wallets.ecsign has settled with outcome
Settle(c, outcome) ==
    IF ~outcome.ok
    THEN /\ ecsignResult' = Undefined
         /\ signedTx' = Undefined
         /\ result' = Rejected(outcome.err)
    ELSE /\ ecsignResult' = Some(outcome.val)
         /\ IF c.op = "signTransaction"
            THEN signTransaction_return(
                     fromTxData(ValueOf(c.txData), Some(outcome.val), common))
            ELSE /\ signedTx' = Undefined
                 /\ result' = Fulfilled(IF c.op = "ecsign" THEN <<>>
                                        ELSE signDigest_return(outcome.val))

\* a call enters wallets.ecsign: HDWallets signs at once, KMSWallets awaits
\* provider.signDigest
Enter(c) ==
    /\ call' = c
    /\ IF walletKind = "HD"
       THEN /\ ~Degenerate(KeyStore[c.account.keyId], c.digest,
                           Rfc6979Nonce(KeyStore[c.account.keyId], c.digest))
            /\ pc' = "done"
            /\ Settle(c, Ok(HDProvider_ecsign(c.account.keyId, c.digest, c.chainId)))
            /\ UNCHANGED providerCalls
       ELSE /\ pc' = "awaitSignDigest"
            /\ providerCalls' = <<ProviderCall("signDigest", c.account.keyId, c.digest)>>
            /\ UNCHANGED <<ecsignResult, signedTx, result>>
    /\ UNCHANGED <<derSig, rs, address, v, signerVars, asideVars>>

\* Signer.signTransaction(account, txData)
SignTransaction ==
    \E account \in Accounts, txData \in TxDatas :
        /\ pc = "idle"
        /\ Enter([op |-> "signTransaction", account |-> account, txData |-> Some(txData),
                  digest |-> signTransaction_digest(txData, common),
                  chainId |-> signTransaction_chainId(common)])

\* Signer.signMessage(account, message)
SignMessage ==
    \E account \in Accounts, message \in Messages :
        /\ pc = "idle"
        /\ Enter([op |-> "signMessage", account |-> account, txData |-> Undefined,
                  digest |-> bufferOrHex(AsBuffer(hashPersonalMessage(message))),
                  chainId |-> signDigest_chainId(common)])

\* Signer.signDigest(account, digest)
SignDigest ==
    \E account \in Accounts, digest \in DigestInputs :
        /\ pc = "idle"
        /\ Enter([op |-> "signDigest", account |-> account, txData |-> Undefined,
                  digest |-> bufferOrHex(digest),
                  chainId |-> signDigest_chainId(common)])

\* wallets.ecsign(account, digest, chainId), called directly
Ecsign ==
    \E account \in Accounts, digest \in Digests, chainId \in ChainIdArgs :
        /\ pc = "idle"
        /\ Enter([op |-> "ecsign", account |-> account, txData |-> Undefined,
                  digest |-> digest, chainId |-> chainId])

\* KMSWallets.ecsign lines 51-56 for the target address addr
ResolveV(addr, decoded, vOutcome) ==
    /\ address' = Some(addr)
    /\ v' = Some(vOutcome)
    /\ pc' = "done"
    /\ Settle(call, KMSWallets_ecsign_return(decoded, vOutcome))

\* KMSWallets.ecsign lines 48-50 once provider.signDigest has resolved with der
AfterSignDigest(der, dec) ==
    /\ derSig' = Some(der)
    /\ IF ~dec.ok
       THEN /\ rs' = Undefined
            /\ pc' = "done"
            /\ providerCalls' = Settled(providerCalls, "returned")
            /\ Settle(call, dec)
            /\ UNCHANGED <<address, v>>
       ELSE /\ rs' = Some(dec.val)
            /\ IF needsAddress(call.account)
               THEN /\ pc' = "awaitGetDerPublickey"
                    /\ providerCalls' =
                           Append(Settled(providerCalls, "returned"),
                                  ProviderCall("getDerPublickey", call.account.keyId, <<>>))
                    /\ UNCHANGED <<address, v, ecsignResult, signedTx, result>>
               ELSE /\ providerCalls' = Settled(providerCalls, "returned")
                    /\ ResolveV(ValueOf(call.account.address), dec.val,
                             calculateV(ValueOf(call.account.address), call.digest,
                                        dec.val.r, dec.val.s, call.chainId))

\* byte strings that are no DER SEQUENCE { INTEGER, INTEGER }
MalformedSignatures ==
    {<<>>,                                  \* nothing
     <<TagSequence>>,                       \* no length
     <<TagSequence, 6, TagInteger, 1, 1>>,  \* shorter than its length
     <<TagBitString, 6, TagInteger, 1, 1, TagInteger, 1, 5>>,   \* no SEQUENCE
     <<TagSequence, 3, TagInteger, 1, 1>>,  \* one INTEGER
     <<TagSequence, 6, TagInteger, 1, 1, TagBitString, 1, 5>>,  \* s no INTEGER
     <<TagSequence, 6, TagObjectIdentifier, 1, 1, TagInteger, 1, 5>>}  \* r no INTEGER

\* provider.signDigest resolves
ProviderSignDigestReturns ==
    \E t \in (1..MaxNonce) \cup {Rfc6979Nonce(KeyStore[call.account.keyId], call.digest)},
       flip \in BOOLEAN :
        /\ pc = "awaitSignDigest"
        /\ ~Degenerate(KeyStore[call.account.keyId], call.digest, t)
        /\ AfterSignDigest(KMS_Sign(call.account.keyId, call.digest, t, flip),
                           decodeRS(KMS_Sign(call.account.keyId, call.digest, t, flip)))
        /\ UNCHANGED <<call, signerVars, asideVars>>

\* provider.signDigest resolves with bytes that are no signature
ProviderSignDigestReturnsMalformed ==
    \E der \in MalformedSignatures :
        /\ pc = "awaitSignDigest"
        /\ AfterSignDigest(der, decodeRS(der))
        /\ UNCHANGED <<call, signerVars, asideVars>>

\* Wallets.getAddress(keyId) has settled with addr
AfterGetAddress(addr) ==
    IF ~addr.ok
    THEN /\ pc' = "done"
         /\ Settle(call, addr)
         /\ UNCHANGED <<address, v>>
    ELSE ResolveV(addr.val, ValueOf(rs),
                  calculateV(addr.val, call.digest, ValueOf(rs).r, ValueOf(rs).s,
                             call.chainId))

\* provider.getDerPublickey resolves
ProviderGetDerPublickeyReturns ==
    /\ pc = "awaitGetDerPublickey"
    /\ providerCalls' = Settled(providerCalls, "returned")
    /\ AfterGetAddress(KMSWallets_getAddress(KMS_GetPublicKey(call.account.keyId)))
    /\ UNCHANGED <<call, derSig, rs, signerVars, asideVars>>

\* the backend call in flight fails: the rejection propagates
ProviderFails ==
    \E error \in BackendErrors(IF pc = "awaitSignDigest" THEN "signDigest"
                                ELSE "getDerPublickey") :
        /\ pc \in {"awaitSignDigest", "awaitGetDerPublickey"}
        /\ pc' = "done"
        /\ providerCalls' = Settled(providerCalls, error)
        /\ Settle(call, KMSWallets_ecsign_rejects(error))
        /\ UNCHANGED <<call, derSig, rs, address, v, signerVars, asideVars>>

\* a Signer that keeps the outcome of its last call
Return_keeping_outcome ==
    /\ pc = "done"
    /\ pc' = "idle"
    /\ call' = NoCall
    /\ derSig' = Undefined
    /\ rs' = Undefined
    /\ address' = Undefined
    /\ v' = Undefined
    /\ ecsignResult' = Undefined
    /\ signedTx' = Undefined
    /\ result' = result
    /\ providerCalls' = <<>>
    /\ UNCHANGED <<signerVars, asideVars>>

\* the caller takes the outcome; the Signer is ready for the next call
Return ==
    /\ pc = "done"
    /\ pc' = "idle"
    /\ call' = NoCall
    /\ derSig' = Undefined
    /\ rs' = Undefined
    /\ address' = Undefined
    /\ v' = Undefined
    /\ ecsignResult' = Undefined
    /\ signedTx' = Undefined
    /\ result' = Pending
    /\ providerCalls' = <<>>
    /\ UNCHANGED <<signerVars, asideVars>>

Next ==
    \/ SignTransaction
    \/ SignMessage
    \/ SignDigest
    \/ Ecsign
    \/ ProviderSignDigestReturns
    \/ ProviderSignDigestReturnsMalformed
    \/ ProviderGetDerPublickeyReturns
    \/ ProviderFails
    \/ Return

Spec == Init /\ [][Next]_vars

\* a backend call in flight gets its response: a result or a failure
ProviderResponds ==
    \/ ProviderFails
    \/ ProviderSignDigestReturns
    \/ ProviderSignDigestReturnsMalformed
    \/ ProviderGetDerPublickeyReturns

\* the Signer over a backend of which every call eventually responds
SpecResponsive == Init /\ [][Next]_vars /\ WF_vars(ProviderResponds)

(***************************************************************************)
(* USignatureECDSA.decodeRS on its own: applied to the DER encoding of     *)
(* every pair of an r among DecodeRSValuesOfR and an s below the order.    *)
(***************************************************************************)
DecodeRSValuesOfR == {1, 127, 128, 255, 256, secp256k1N - 1}

DecodeRSInputs ==
    {[fn |-> "decodeRS", r |-> r, s |-> s] :
        r \in DecodeRSValuesOfR, s \in 0..(secp256k1N - 1)}

InitDecodeRS ==
    /\ build = "src"
    /\ walletKind = "KMS"
    /\ ctorChainId = Undefined
    /\ common = Undefined
    /\ Idle
    /\ fnIn \in {Some(i) : i \in DecodeRSInputs}
    /\ fnOut = Undefined
    /\ tasks = <<>>
    /\ GcpFresh
    /\ ExtraFresh

ApplyDecodeRS ==
    /\ fnOut = Undefined
    /\ fnOut' = Some(decodeRS(DerSignature(ValueOf(fnIn).r, ValueOf(fnIn).s)))
    /\ UNCHANGED <<fnIn, tasks, gcpVars, extraVars, signerVars, callVars>>

SpecDecodeRS == InitDecodeRS /\ [][ApplyDecodeRS]_vars

(***************************************************************************)
(* Concurrent signing calls on one Signer with a KMS or HD wallet: each    *)
(* call is suspended at its own awaits and the calls interleave there.     *)
(* tasks[i] holds what call i was given (input), what the backend answered *)
(* it (responses), and the locals of its KMSWallets.ecsign (locals).       *)
(***************************************************************************)
NumTasks == 2
TaskIds == 1..NumTasks

TaskAccounts ==
    {[keyId |-> "key1", address |-> Undefined],
     [keyId |-> "key2", address |-> Some(AddressOf("key2"))]}

\* the signDigest calls the Signer hands to wallets.ecsign
TaskCalls ==
    {[op |-> "signDigest", account |-> a, txData |-> Undefined,
      digest |-> d, chainId |-> signDigest_chainId(common)] :
        a \in TaskAccounts, d \in Digests}

NoResponses == [signDigest |-> Undefined, getDerPublickey |-> Undefined]

NewLocals == [pc |-> "new", call |-> NoCall, rs |-> Undefined, result |-> Pending]

NewTask == [input |-> NoCall, responses |-> NoResponses, locals |-> NewLocals]

\* what the Signer method returns once wallets.ecsign has settled with
\* outcome (signTransaction lines 41-43, signDigest lines 67-71)
SignerResult(c, outcome) ==
    IF ~outcome.ok THEN Rejected(outcome.err)
    ELSE IF c.op = "signTransaction"
    THEN LET signed == fromTxData(ValueOf(c.txData), Some(outcome.val), common)
         IN  IF signed.ok THEN Fulfilled(addHexPrefix(toHex(serialize(signed.val))))
             ELSE Rejected(signed.err)
    ELSE Fulfilled(signDigest_return(outcome.val))

\* the locals of a call are written to every call, as fields of the shared
\* wallet would be
StoreLocals_shared(ts, i, locals) ==
    [j \in DOMAIN ts |-> [ts[j] EXCEPT !.locals = locals]]

\* `const {r, s}`, `const address`, `const v`: a call writes its own locals
StoreLocals(ts, i, locals) == [ts EXCEPT ![i].locals = locals]

\* the call has settled with outcome
DoneLocals(locals, outcome) ==
    [locals EXCEPT !.pc = "done", !.result = SignerResult(locals.call, outcome)]

\* the locals of call c as it enters wallets.ecsign
StartedLocals(c) ==
    IF walletKind = "HD"
    THEN DoneLocals([NewLocals EXCEPT !.call = c],
                    Ok(HDProvider_ecsign(c.account.keyId, c.digest, c.chainId)))
    ELSE [NewLocals EXCEPT !.pc = "awaitSignDigest", !.call = c]

\* KMSWallets.ecsign lines 48-56 once provider.signDigest has resolved
LocalsAfterSignDigest(locals, dec) ==
    IF ~dec.ok THEN DoneLocals(locals, dec)
    ELSE IF needsAddress(locals.call.account)
    THEN [locals EXCEPT !.pc = "awaitGetDerPublickey", !.rs = Some(dec.val)]
    ELSE DoneLocals([locals EXCEPT !.rs = Some(dec.val)],
                    KMSWallets_ecsign_finish(ValueOf(locals.call.account.address),
                                             locals.call.digest, dec.val,
                                             locals.call.chainId))

\* KMSWallets.ecsign lines 50-56 once getAddress has settled with addr
LocalsAfterGetAddress(locals, addr) ==
    IF ~addr.ok THEN DoneLocals(locals, addr)
    ELSE DoneLocals(locals,
                    KMSWallets_ecsign_finish(addr.val, locals.call.digest,
                                             ValueOf(locals.rs), locals.call.chainId))

InitConcurrent ==
    /\ build \in Builds
    /\ walletKind \in {"KMS", "HD"}
    /\ ctorChainId \in {Undefined, Some(1)}
    /\ common = Signer_constructor(ctorChainId)
    /\ Idle
    /\ fnIn = Undefined
    /\ fnOut = Undefined
    /\ tasks = [i \in TaskIds |-> NewTask]
    /\ GcpFresh
    /\ ExtraFresh

\* call i is made: Signer.signDigest(account, digest)
TaskStart(i) ==
    \E c \in TaskCalls :
        /\ tasks[i].locals.pc = "new"
        /\ ~Degenerate(KeyStore[c.account.keyId], c.digest,
                       Rfc6979Nonce(KeyStore[c.account.keyId], c.digest))
        /\ tasks' = StoreLocals([tasks EXCEPT ![i].input = c], i, StartedLocals(c))
        /\ UNCHANGED <<signerVars, callVars, fnVars, gcpVars, extraVars>>

\* the backend answers the signDigest request of call i
TaskSignDigestReturns(i) ==
    \E flip \in BOOLEAN :
        LET input == tasks[i].input
            der == KMS_Sign(input.account.keyId, input.digest,
                            Rfc6979Nonce(KeyStore[input.account.keyId], input.digest),
                            flip)
        IN  /\ tasks[i].locals.pc = "awaitSignDigest"
            /\ input.op # "none"
            /\ tasks' = StoreLocals([tasks EXCEPT ![i].responses.signDigest = Some(Ok(der))],
                                    i, LocalsAfterSignDigest(tasks[i].locals, decodeRS(der)))
            /\ UNCHANGED <<signerVars, callVars, fnVars, gcpVars, extraVars>>

\* the backend answers the getDerPublickey request of call i
TaskGetDerPublickeyReturns(i) ==
    LET der == KMS_GetPublicKey(tasks[i].input.account.keyId)
    IN  /\ tasks[i].locals.pc = "awaitGetDerPublickey"
        /\ tasks' = StoreLocals(
                        [tasks EXCEPT ![i].responses.getDerPublickey = Some(Ok(der))],
                        i, LocalsAfterGetAddress(tasks[i].locals, KMSWallets_getAddress(der)))
        /\ UNCHANGED <<signerVars, callVars, fnVars, gcpVars, extraVars>>

\* the backend call of call i in flight fails
TaskFails(i) ==
    \E error \in {"BackendError"} :
        /\ tasks[i].locals.pc \in {"awaitSignDigest", "awaitGetDerPublickey"}
        /\ tasks' = StoreLocals(
               IF tasks[i].locals.pc = "awaitSignDigest"
               THEN [tasks EXCEPT ![i].responses.signDigest = Some(Throw(error))]
               ELSE [tasks EXCEPT ![i].responses.getDerPublickey = Some(Throw(error))],
               i, DoneLocals(tasks[i].locals, KMSWallets_ecsign_rejects(error)))
        /\ UNCHANGED <<signerVars, callVars, fnVars, gcpVars, extraVars>>

NextConcurrent ==
    \/ \E i \in TaskIds : TaskStart(i)
    \/ \E i \in TaskIds : TaskSignDigestReturns(i)
    \/ \E i \in TaskIds : TaskGetDerPublickeyReturns(i)
    \/ \E i \in TaskIds : TaskFails(i)

SpecConcurrent == InitConcurrent /\ [][NextConcurrent]_vars

(***************************************************************************)
(* KMSProviderGCP: the provider holds an optional key ring path; each      *)
(* method checks it, sends one request to the KeyManagementServiceClient   *)
(* and settles when the client answers.                                    *)
(***************************************************************************)
MaxGcpCalls == 2

KeyRingIds == {"ring1", "ring2"}

KeyRingPaths ==
    {[projectId |-> "project", locationId |-> "global", keyRingId |-> k] :
        k \in KeyRingIds}

Uuids == {"uuid1", "uuid2"}

\* the keys of the key ring the calls name
GcpKeyIds == {"key1"}

GcpMissingPath == "this.path is undefined"

\* kms.cryptoKeyVersionPath, kms.keyRingPath, kms.locationPath
cryptoKeyVersionPath(p, keyId) ==
    <<p.projectId, p.locationId, p.keyRingId, keyId, "1">>
keyRingPath(p) == <<p.projectId, p.locationId, p.keyRingId>>
locationPath(p) == <<p.projectId, p.locationId>>

\* crc32c.calculate
crc32c_calculate(buf) == Absorb(3, buf)

\* a call of a provider method: its arguments, this.path as the call found
\* it, and what became of the call
GcpCall(method, arg, digest) ==
    [method |-> method, arg |-> arg, digest |-> digest, path |-> path,
     outcome |-> Pending]

\* a request to the client, sent by the call-th call of the provider
KmsRequest(method, name, id) ==
    [call |-> Len(gcpCalls) + 1, method |-> method, name |-> name, id |-> id,
     response |-> Undefined]

\* no call of the provider is suspended
GcpIdle ==
    IF gcpCalls = <<>> THEN TRUE
    ELSE gcpCalls[Len(gcpCalls)].outcome.status # "pending"

\* the request in flight is one of method
GcpAwaits(method) ==
    /\ ~GcpIdle
    /\ kmsRequests[Len(kmsRequests)].method = method

\* a method that does not check this.path sends its request regardless
GcpGuarded_unchecked(c, request) ==
    /\ gcpCalls' = Append(gcpCalls, c)
    /\ kmsRequests' = Append(kmsRequests, request)

\* `if (!this.path) { throw "this.path is undefined"; }`, then the request
GcpGuarded(c, request) ==
    IF ~IsDefined(path)
    THEN /\ gcpCalls' = Append(gcpCalls, [c EXCEPT !.outcome = Rejected(GcpMissingPath)])
         /\ UNCHANGED kmsRequests
    ELSE /\ gcpCalls' = Append(gcpCalls, c)
         /\ kmsRequests' = Append(kmsRequests, request)

\* the client has answered with response and the call settles with outcome
GcpSettle(response, outcome) ==
    /\ kmsRequests' = [kmsRequests EXCEPT ![Len(kmsRequests)].response = Some(response)]
    /\ gcpCalls' = [gcpCalls EXCEPT ![Len(gcpCalls)].outcome = outcome]

\* the name of the resource a request is about; the unchecked read of
\* this.path.projectId of an undefined path is a TypeError
ResourceName(kind, keyId) ==
    IF ~IsDefined(path) THEN <<"TypeError">>
    ELSE IF kind = "cryptoKeyVersion" THEN cryptoKeyVersionPath(ValueOf(path), keyId)
    ELSE IF kind = "keyRing" THEN keyRingPath(ValueOf(path))
    ELSE locationPath(ValueOf(path))

SetPath ==
    \E p \in KeyRingPaths :
        /\ path' = Some(p)
        /\ UNCHANGED <<kmsRequests, gcpCalls, signerVars, callVars, fnVars, tasks, extraVars>>

GCP_getDerPublickey ==
    \E keyId \in GcpKeyIds :
        /\ GcpIdle
        /\ Len(gcpCalls) < MaxGcpCalls
        /\ GcpGuarded(GcpCall("getDerPublickey", keyId, <<>>),
                      KmsRequest("getPublicKey", ResourceName("cryptoKeyVersion", keyId), ""))
        /\ UNCHANGED <<path, signerVars, callVars, fnVars, tasks, extraVars>>

GCP_signDigest ==
    \E keyId \in GcpKeyIds, digest \in {<<1, 2, 3>>} :
        /\ GcpIdle
        /\ Len(gcpCalls) < MaxGcpCalls
        /\ GcpGuarded(GcpCall("signDigest", keyId, digest),
                      KmsRequest("asymmetricSign", ResourceName("cryptoKeyVersion", keyId), ""))
        /\ UNCHANGED <<path, signerVars, callVars, fnVars, tasks, extraVars>>

GCP_createKey ==
    \E cryptoKeyId \in Uuids :
        /\ GcpIdle
        /\ Len(gcpCalls) < MaxGcpCalls
        /\ GcpGuarded(GcpCall("createKey", "SOFTWARE", <<>>),
                      KmsRequest("createCryptoKey", ResourceName("keyRing", ""), cryptoKeyId))
        /\ UNCHANGED <<path, signerVars, callVars, fnVars, tasks, extraVars>>

GCP_createKeyRing ==
    \E keyRingId \in KeyRingIds :
        /\ GcpIdle
        /\ Len(gcpCalls) < MaxGcpCalls
        /\ GcpGuarded(GcpCall("createKeyRing", keyRingId, <<>>),
                      KmsRequest("createKeyRing", ResourceName("location", ""), keyRingId))
        /\ UNCHANGED <<path, signerVars, callVars, fnVars, tasks, extraVars>>

\* getDerPublickey lines 413-417
GCP_getDerPublickey_return(pem) ==
    IF ~IsDefined(pem) THEN Rejected("GCPKMS: pubKey[0].pem is undefined.")
    ELSE Fulfilled(ValueOf(pem))

\* signDigest without the check of verifiedDigestCrc32c
GCP_signDigest_return_unverified(signResponse) ==
    IF ~IsDefined(signResponse.signature) \/ ~IsDefined(signResponse.signatureCrc32c)
    THEN Rejected("GCPKMS: signResponse is undefined.")
    ELSE IF crc32c_calculate(ValueOf(signResponse.signature))
                # ValueOf(signResponse.signatureCrc32c)
    THEN Rejected("GCPKMS: response corrupted in-transit")
    ELSE Fulfilled(ValueOf(signResponse.signature))

\* signDigest lines 439-448
GCP_signDigest_return(signResponse) ==
    IF ~IsDefined(signResponse.signature) \/ ~IsDefined(signResponse.signatureCrc32c)
    THEN Rejected("GCPKMS: signResponse is undefined.")
    ELSE IF ~signResponse.verifiedDigestCrc32c
    THEN Rejected("GCPKMS: request corrupted in-transit")
    ELSE IF crc32c_calculate(ValueOf(signResponse.signature))
                # ValueOf(signResponse.signatureCrc32c)
    THEN Rejected("GCPKMS: response corrupted in-transit")
    ELSE Fulfilled(ValueOf(signResponse.signature))

\* createKey lines 477-480, createKeyRing lines 496-499
GCP_create_return(created, id, error) ==
    IF ~IsDefined(created.name) THEN Rejected(error) ELSE Fulfilled(id)

\* the answers of asymmetricSign for the call in flight
SignResponses(c) ==
    LET der == KMS_Sign(c.arg, c.digest, Rfc6979Nonce(KeyStore[c.arg], c.digest), FALSE)
        crc == crc32c_calculate(der)
    IN  {[signature |-> sig, signatureCrc32c |-> sum, verifiedDigestCrc32c |-> verified] :
            sig \in {Undefined, Some(der)},
            sum \in {Undefined, Some(crc), Some((crc + 1) % HashMod)},
            verified \in BOOLEAN}

KmsGetPublicKeyResponds ==
    /\ GcpAwaits("getPublicKey")
    /\ \E pem \in {Undefined, Some(KMS_GetPublicKey(gcpCalls[Len(gcpCalls)].arg))} :
           GcpSettle([pem |-> pem], GCP_getDerPublickey_return(pem))
    /\ UNCHANGED <<path, signerVars, callVars, fnVars, tasks, extraVars>>

KmsAsymmetricSignResponds ==
    /\ GcpAwaits("asymmetricSign")
    /\ \E signResponse \in SignResponses(gcpCalls[Len(gcpCalls)]) :
           GcpSettle(signResponse, GCP_signDigest_return(signResponse))
    /\ UNCHANGED <<path, signerVars, callVars, fnVars, tasks, extraVars>>

KmsCreateCryptoKeyResponds ==
    /\ GcpAwaits("createCryptoKey")
    /\ \E name \in {Undefined, Some(kmsRequests[Len(kmsRequests)].name)} :
           GcpSettle([name |-> name],
                     GCP_create_return([name |-> name], kmsRequests[Len(kmsRequests)].id,
                                       "GCPKMS: key.name not exist."))
    /\ UNCHANGED <<path, signerVars, callVars, fnVars, tasks, extraVars>>

KmsCreateKeyRingResponds ==
    /\ GcpAwaits("createKeyRing")
    /\ \E name \in {Undefined, Some(kmsRequests[Len(kmsRequests)].name)} :
           GcpSettle([name |-> name],
                     GCP_create_return([name |-> name], gcpCalls[Len(gcpCalls)].arg,
                                       "GCPKMS: keyRing.name not exist."))
    /\ UNCHANGED <<path, signerVars, callVars, fnVars, tasks, extraVars>>

\* the awaited client call rejects
KmsRejects ==
    /\ ~GcpIdle
    /\ GcpSettle([rejected |-> TRUE], Rejected("BackendError"))
    /\ UNCHANGED <<path, signerVars, callVars, fnVars, tasks, extraVars>>

InitGCP ==
    /\ build = "src"
    /\ walletKind = "KMS"
    /\ ctorChainId = Undefined
    /\ common = Undefined
    /\ Idle
    /\ fnIn = Undefined
    /\ fnOut = Undefined
    /\ tasks = <<>>
    /\ GcpFresh
    /\ ExtraFresh

NextGCP ==
    \/ SetPath
    \/ GCP_getDerPublickey
    \/ GCP_signDigest
    \/ GCP_createKey
    \/ GCP_createKeyRing
    \/ KmsGetPublicKeyResponds
    \/ KmsAsymmetricSignResponds
    \/ KmsCreateCryptoKeyResponds
    \/ KmsCreateKeyRingResponds
    \/ KmsRejects

SpecGCP == InitGCP /\ [][NextGCP]_vars

(***************************************************************************)
(* KMSWallets.ecsign over the GCP provider, for an account without an      *)
(* address, while setPath may be called on the provider at any time.       *)
(***************************************************************************)
\* the key a key ring holds under the resource name of a request: the same
\* key id names different keys in different key rings
GcpKeyOf(name) == IF name[3] = "ring1" THEN "key1" ELSE "key2"

EcsignRejected(error) == [gcpEcsign EXCEPT !.stage = "done", !.error = error]

\* KMSWallets.ecsign line 48: provider.signDigest(account.keyId, digest)
GCPWallet_ecsign ==
    \E keyId \in GcpKeyIds, digest \in Digests :
        /\ gcpEcsign.stage = "none"
        /\ gcpCalls = <<>>
        /\ GcpGuarded(GcpCall("signDigest", keyId, digest),
                      KmsRequest("asymmetricSign", ResourceName("cryptoKeyVersion", keyId), ""))
        /\ gcpEcsign' =
              IF IsDefined(path)
              THEN [NoEcsign EXCEPT !.stage = "awaitSignDigest", !.keyId = keyId,
                                    !.digest = digest]
              ELSE [NoEcsign EXCEPT !.stage = "done", !.keyId = keyId, !.digest = digest,
                                    !.error = GcpMissingPath]
        /\ UNCHANGED <<path, addressCalls, awsCalls, signerVars, callVars, fnVars, tasks>>

\* the answers of asymmetricSign of the key the request names
WalletSignResponses ==
    LET c == gcpCalls[Len(gcpCalls)]
        key == GcpKeyOf(kmsRequests[Len(kmsRequests)].name)
    IN  {[signature |-> Some(KMS_Sign(key, c.digest, t, FALSE)),
          signatureCrc32c |-> Some(crc32c_calculate(KMS_Sign(key, c.digest, t, FALSE))),
          verifiedDigestCrc32c |-> verified] :
            t \in {n \in 1..MaxNonce : ~Degenerate(KeyStore[key], c.digest, n)},
            verified \in BOOLEAN}

\* asymmetricSign answers: signDigest settles, and ecsign goes on to line 50,
\* this.getAddress(account.keyId), which calls provider.getDerPublickey
GCPWallet_signDigestSettles ==
    /\ gcpEcsign.stage = "awaitSignDigest"
    /\ \E signResponse \in WalletSignResponses :
          LET outcome == GCP_signDigest_return(signResponse)
              dec == decodeRS(outcome.value)
              calls == [gcpCalls EXCEPT ![Len(gcpCalls)].outcome = outcome]
              requests == [kmsRequests EXCEPT ![Len(kmsRequests)].response = Some(signResponse)]
              next == GcpCall("getDerPublickey", gcpEcsign.keyId, <<>>)
          IN  IF outcome.status # "fulfilled"
              THEN /\ gcpCalls' = calls
                   /\ kmsRequests' = requests
                   /\ gcpEcsign' = EcsignRejected(outcome.error)
              ELSE IF ~dec.ok
              THEN /\ gcpCalls' = calls
                   /\ kmsRequests' = requests
                   /\ gcpEcsign' = EcsignRejected(dec.err)
              ELSE IF ~IsDefined(path)
              THEN /\ gcpCalls' = Append(calls, [next EXCEPT !.outcome = Rejected(GcpMissingPath)])
                   /\ kmsRequests' = requests
                   /\ gcpEcsign' = EcsignRejected(GcpMissingPath)
              ELSE /\ gcpCalls' = Append(calls, next)
                   /\ kmsRequests' =
                         Append(requests,
                                [KmsRequest("getPublicKey",
                                            ResourceName("cryptoKeyVersion", gcpEcsign.keyId), "")
                                   EXCEPT !.call = Len(gcpCalls) + 1])
                   /\ gcpEcsign' = [gcpEcsign EXCEPT !.stage = "awaitGetDerPublickey",
                                                     !.rs = Some(dec.val)]
    /\ UNCHANGED <<path, addressCalls, awsCalls, signerVars, callVars, fnVars, tasks>>

\* getPublicKey answers: getDerPublickey settles, and ecsign runs lines 50-56
GCPWallet_getDerPublickeySettles ==
    /\ gcpEcsign.stage = "awaitGetDerPublickey"
    /\ \E pem \in {Undefined,
                    Some(KMS_GetPublicKey(GcpKeyOf(kmsRequests[Len(kmsRequests)].name)))} :
          LET outcome == GCP_getDerPublickey_return(pem)
              addr == KMSWallets_getAddress(outcome.value)
              fin == KMSWallets_ecsign_finish(addr.val, gcpEcsign.digest,
                                              ValueOf(gcpEcsign.rs), Undefined)
          IN  /\ GcpSettle([pem |-> pem], outcome)
              /\ gcpEcsign' =
                    IF outcome.status # "fulfilled" THEN EcsignRejected(outcome.error)
                    ELSE IF ~addr.ok THEN EcsignRejected(addr.err)
                    ELSE IF ~fin.ok THEN EcsignRejected(fin.err)
                    ELSE [gcpEcsign EXCEPT !.stage = "done", !.signature = Some(fin.val)]
    /\ UNCHANGED <<path, addressCalls, awsCalls, signerVars, callVars, fnVars, tasks>>

\* the awaited client call rejects, and ecsign with it
GCPWallet_kmsRejects ==
    /\ gcpEcsign.stage \in {"awaitSignDigest", "awaitGetDerPublickey"}
    /\ GcpSettle([rejected |-> TRUE], Rejected("BackendError"))
    /\ gcpEcsign' = EcsignRejected("BackendError")
    /\ UNCHANGED <<path, addressCalls, awsCalls, signerVars, callVars, fnVars, tasks>>

NextGCPWallet ==
    \/ SetPath
    \/ GCPWallet_ecsign
    \/ GCPWallet_signDigestSettles
    \/ GCPWallet_getDerPublickeySettles
    \/ GCPWallet_kmsRejects

SpecGCPWallet == InitGCP /\ [][NextGCPWallet]_vars

(***************************************************************************)
(* UBIP44.keyId, applied on its own to strings and to {account?, index}    *)
(* objects.  Strings are sequences of one-character strings.               *)
(***************************************************************************)
MaxKeyIdLen == 5
MaxIndex == 11

DecimalDigits == <<"0", "1", "2", "3", "4", "5", "6", "7", "8", "9">>

\* `${n}` of a natural number
RECURSIVE DecimalString(_)
DecimalString(n) ==
    IF n < 10 THEN <<DecimalDigits[n + 1]>>
    ELSE Append(DecimalString(n \div 10), DecimalDigits[(n % 10) + 1])

\* /^\d+$/
IsDigits(str) ==
    /\ Len(str) >= 1
    /\ \A i \in 1..Len(str) : \E d \in 1..10 : str[i] = DecimalDigits[d]

\* /\d+-\d+/ without the anchors: a digit, '-', a digit anywhere
MatchesAccountIndex_unanchored(str) ==
    \E k \in 2..(Len(str) - 1) :
        /\ str[k] = "-"
        /\ IsDigits(<<str[k - 1]>>)
        /\ IsDigits(<<str[k + 1]>>)

\* /^\d+-\d+$/
MatchesAccountIndex(str) ==
    \E k \in 2..(Len(str) - 1) :
        /\ str[k] = "-"
        /\ IsDigits(SubSeq(str, 1, k - 1))
        /\ IsDigits(SubSeq(str, k + 1, Len(str)))

\* const [account, index] = shortId.split("-")
SplitAccountIndex(str) ==
    LET dashes == {k \in 1..Len(str) : str[k] = "-"}
        first == CHOOSE k \in dashes : \A j \in dashes : k <= j
        later == {k \in dashes : k > first}
        second == IF later = {} THEN Len(str) + 1
                  ELSE CHOOSE k \in later : \A j \in later : k <= j
    IN  [account |-> SubSeq(str, 1, first - 1),
         index |-> SubSeq(str, first + 1, second - 1)]

\* `${account}'/0/${index}`
DerivationPath(account, index) == account \o <<"'", "/", "0", "/">> \o index

\* the string thrown, which goes on to name the two formats
BadShortIdFormat == "bad shortId format"

\* UBIP44.keyId of @web3-kms-signer/hd-wallets
UBIP44_keyId(shortId) ==
    IF shortId.kind = "string"
    THEN IF MatchesAccountIndex(shortId.str)
         THEN Ok(DerivationPath(SplitAccountIndex(shortId.str).account,
                                SplitAccountIndex(shortId.str).index))
         ELSE IF IsDigits(shortId.str)
         THEN Ok(DerivationPath(<<"0">>, shortId.str))
         ELSE Throw(BadShortIdFormat)
    ELSE LET account == IF ~IsDefined(shortId.account) \/ shortId.account = Some(0)
                        THEN 0 ELSE ValueOf(shortId.account)
         IN  Ok(DerivationPath(DecimalString(account), DecimalString(shortId.index)))

Bip44Prefix == <<"m", "/", "4", "4", "'", "/", "0", "'", "/">>

\* the root package's keyId without its m/44'/0'/
UBIP44_keyId_root_unprefixed(shortId) == UBIP44_keyId(shortId)

\* UBIP44.keyId of the root package: the same under m/44'/0'/
UBIP44_keyId_root(shortId) ==
    LET derivation == UBIP44_keyId(shortId)
    IN  IF derivation.ok THEN Ok(Bip44Prefix \o derivation.val) ELSE derivation

KeyIdAlphabet == {"0", "4", "-", "a"}

KeyIdStrings ==
    UNION {[1..n -> KeyIdAlphabet] : n \in 0..MaxKeyIdLen}

KeyIdInputs ==
    {[kind |-> "string", str |-> str, account |-> Undefined, index |-> 0] :
        str \in KeyIdStrings}
    \cup {[kind |-> "object", str |-> <<>>, account |-> account, index |-> index] :
            account \in {Undefined} \cup {Some(a) : a \in 0..MaxIndex},
            index \in 0..MaxIndex}

InitKeyId ==
    /\ build = "src"
    /\ walletKind = "HD"
    /\ ctorChainId = Undefined
    /\ common = Undefined
    /\ Idle
    /\ fnIn \in {Some(i) : i \in KeyIdInputs}
    /\ fnOut = Undefined
    /\ tasks = <<>>
    /\ GcpFresh
    /\ ExtraFresh

ApplyKeyId ==
    /\ fnOut = Undefined
    /\ fnOut' = Some([hd |-> UBIP44_keyId(ValueOf(fnIn)),
                      root |-> UBIP44_keyId_root(ValueOf(fnIn))])
    /\ UNCHANGED <<fnIn, tasks, gcpVars, extraVars, signerVars, callVars>>

SpecKeyId == InitKeyId /\ [][ApplyKeyId]_vars

(***************************************************************************)
(* UAddress: the checksum address of an address, and of the address read   *)
(* back from its checksum string in lower and in mixed case.               *)
(***************************************************************************)
AddressBytes == {0, 26, 91, 127, 128, 171, 205, 222, 233, 239, 250, 255}

AddressInputs ==
    {[kind |-> "address", bytes |-> b] : b \in [1..AddrLen -> AddressBytes]}

InitChecksum ==
    /\ build = "src"
    /\ walletKind = "HD"
    /\ ctorChainId = Undefined
    /\ common = Undefined
    /\ Idle
    /\ fnIn \in {Some(i) : i \in AddressInputs}
    /\ fnOut = Undefined
    /\ tasks = <<>>
    /\ GcpFresh
    /\ ExtraFresh

ApplyChecksum ==
    LET checksum == UAddress_getChecksumAddress(ValueOf(fnIn).bytes)
    IN  /\ fnOut = Undefined
        /\ fnOut' = Some([checksum |-> checksum,
                          ofLower |-> UAddress_getChecksumAddress(
                              UAddress_fromAddress(AsHexString(toLowerCase(checksum)))),
                          ofMixed |-> UAddress_getChecksumAddress(
                              UAddress_fromAddress(AsHexString(checksum)))])
        /\ UNCHANGED <<fnIn, tasks, gcpVars, extraVars, signerVars, callVars>>

SpecChecksum == InitChecksum /\ [][ApplyChecksum]_vars

(***************************************************************************)
(* fromPublickeyDerEncoding, applied on its own to SubjectPublicKeyInfo    *)
(* encodings of the public keys, uncompressed and compressed, and to bytes *)
(* that are no SubjectPublicKeyInfo.                                       *)
(***************************************************************************)
MaxKeyScalar == 30

\* SEQUENCE { algorithm, BIT STRING { 0 unused bits, payload } } with the
\* given tags in place of SEQUENCE and BIT STRING
SpkiBytes(outerTag, algorithm, bitTag, payload) ==
    LET bits == <<0>> \o payload
        body == algorithm \o <<bitTag, Len(bits)>> \o bits
    IN  <<outerTag, Len(body)>> \o body

EcAlgorithm == <<TagSequence, 6, TagObjectIdentifier, 1, 42, TagObjectIdentifier, 1, 43>>

\* the encodings made of the public key of the private scalar d
DerPublickeyInputsOf(d) ==
    LET point == PointToPublickey(ScalarBaseMul(d))
        x == SubSeq(point, 1, ScalarLen)
        uncompressed == <<4>> \o point
        compressed == <<2 + (ScalarBaseMul(d)[2] % 2)>> \o x
        spki == SpkiBytes(TagSequence, EcAlgorithm, TagBitString, uncompressed)
        in(der, payload, verifies) ==
            [kind |-> "spki", der |-> der, payload |-> payload, point |-> point,
             verifies |-> verifies]
    IN  {in(spki, uncompressed, TRUE),
         in(SpkiBytes(TagSequence, EcAlgorithm, TagBitString, compressed), compressed, TRUE),
         in(SubSeq(spki, 1, Len(spki) - 1), uncompressed, FALSE),
         in(SpkiBytes(TagBitString, EcAlgorithm, TagBitString, uncompressed),
            uncompressed, FALSE),
         in(SpkiBytes(TagSequence, EcAlgorithm, TagInteger, uncompressed),
            uncompressed, FALSE),
         in(SpkiBytes(TagSequence, <<TagSequence, 3, TagInteger, 1, 42>>, TagBitString,
                      uncompressed), uncompressed, FALSE),
         in(SpkiBytes(TagSequence, <<TagObjectIdentifier, 1, 42>>, TagBitString,
                      uncompressed), uncompressed, FALSE)}

DerPublickeyInputs == UNION {DerPublickeyInputsOf(d) : d \in 1..MaxKeyScalar}

InitDerPublickey ==
    /\ build = "src"
    /\ walletKind = "KMS"
    /\ ctorChainId = Undefined
    /\ common = Undefined
    /\ Idle
    /\ fnIn \in {Some(i) : i \in DerPublickeyInputs}
    /\ fnOut = Undefined
    /\ tasks = <<>>
    /\ GcpFresh
    /\ ExtraFresh

ApplyFromPublickeyDerEncoding ==
    /\ fnOut = Undefined
    /\ fnOut' = Some(fromPublickeyDerEncoding(ValueOf(fnIn).der))
    /\ UNCHANGED <<fnIn, tasks, gcpVars, extraVars, signerVars, callVars>>

SpecDerPublickey == InitDerPublickey /\ [][ApplyFromPublickeyDerEncoding]_vars

(***************************************************************************)
(* UBuffer.bufferOrHex, applied on its own to a digest as bytes, as hex    *)
(* and as '0x'-prefixed hex, and Signer.signDigest over the HD wallet for  *)
(* the digest in each form.                                                *)
(***************************************************************************)
DigestByteValues == {0, 1, 10, 171, 255}

\* digests of HashLen bytes whose value as an integer stays below 2^31
BufferOrHexInputs ==
    {[kind |-> "digest", bytes |-> b, keyId |-> k] :
        b \in {d \in [1..HashLen -> DigestByteValues] : HashLen <= 3 \/ d[1] < 128},
        k \in KeyIds}

\* Signer.signDigest({keyId}, digest) over HDWallets: the digest handed to
\* wallets.ecsign and the string returned; a digest the key cannot sign has
\* no string
HD_signDigest(keyId, digest) ==
    LET handed == bufferOrHex(digest)
    IN  [digest |-> handed,
         signature |->
            IF Degenerate(KeyStore[keyId], handed, Rfc6979Nonce(KeyStore[keyId], handed))
            THEN <<>>
            ELSE signDigest_return(HDProvider_ecsign(keyId, handed, signDigest_chainId(common)))]

InitBufferOrHex ==
    /\ build \in Builds
    /\ walletKind = "HD"
    /\ ctorChainId = Undefined
    /\ common = Undefined
    /\ Idle
    /\ fnIn \in {Some(i) : i \in BufferOrHexInputs}
    /\ fnOut = Undefined
    /\ tasks = <<>>
    /\ GcpFresh
    /\ ExtraFresh

ApplyBufferOrHex ==
    LET b == ValueOf(fnIn).bytes
        asHex == AsHexString(toHex(b))
        asPrefixed == AsHexString(addHexPrefix(toHex(b)))
    IN  /\ fnOut = Undefined
        /\ fnOut' = Some([ofBuffer |-> bufferOrHex(AsBuffer(b)),
                          ofHex |-> bufferOrHex(asHex),
                          ofPrefixed |-> bufferOrHex(asPrefixed),
                          signedBuffer |-> HD_signDigest(ValueOf(fnIn).keyId, AsBuffer(b)),
                          signedPrefixed |-> HD_signDigest(ValueOf(fnIn).keyId, asPrefixed)])
        /\ UNCHANGED <<fnIn, tasks, gcpVars, extraVars, signerVars, callVars>>

SpecBufferOrHex == InitBufferOrHex /\ [][ApplyBufferOrHex]_vars

(***************************************************************************)
(* Wallets.getAddress and getAddressHex: each awaits the wallet's          *)
(* getPublickey and derives the address from what it resolves with.        *)
(***************************************************************************)
MaxAddressCalls == 2

\* a call of getAddress or getAddressHex: the getPublickey calls it has
\* made, the public key it was given, and what became of it
AddressCall(method, keyId) ==
    [method |-> method, keyId |-> keyId, getPublickeyCalls |-> <<keyId>>,
     publickey |-> Undefined, outcome |-> Pending]

AddressIdle ==
    IF addressCalls = <<>> THEN TRUE
    ELSE addressCalls[Len(addressCalls)].outcome.status # "pending"

\* the wallet's getPublickey for keyId once the provider has answered:
\* KMSWallets decodes the DER public key, HDWallets passes the key on
Wallets_getPublickey(keyId, der) ==
    IF walletKind = "KMS" THEN fromPublickeyDerEncoding(der)
    ELSE Ok(HDProvider_getPublickey(keyId))

\* a derivation that tells getAddressHex from getAddress by nothing
Wallets_derive_bytes(method, publickey) == UAddress_fromPublickey(AsBuffer(publickey))

\* UAddress.fromPublickey(publickey).getAddress() / .getAddressHex()
Wallets_derive(method, publickey) ==
    IF method = "getAddress" THEN UAddress_fromPublickey(AsBuffer(publickey))
    ELSE UAddress_getAddressHex(UAddress_fromPublickey(AsBuffer(publickey)))

Wallets_getAddress ==
    \E keyId \in KeyIds :
        /\ AddressIdle
        /\ Len(addressCalls) < MaxAddressCalls
        /\ addressCalls' = Append(addressCalls, AddressCall("getAddress", keyId))
        /\ UNCHANGED <<gcpEcsign, awsCalls, signerVars, callVars, fnVars, tasks, gcpVars>>

Wallets_getAddressHex ==
    \E keyId \in KeyIds :
        /\ AddressIdle
        /\ Len(addressCalls) < MaxAddressCalls
        /\ addressCalls' = Append(addressCalls, AddressCall("getAddressHex", keyId))
        /\ UNCHANGED <<gcpEcsign, awsCalls, signerVars, callVars, fnVars, tasks, gcpVars>>

\* the awaited getPublickey settles: with the key, or with the throw of
\* the DER decoding of what the provider returned
GetPublickeySettles ==
    /\ ~AddressIdle
    /\ \E der \in {KMS_GetPublicKey(addressCalls[Len(addressCalls)].keyId),
                    <<TagSequence, 3, TagInteger, 1, 42>>} :
          LET c == addressCalls[Len(addressCalls)]
              pub == Wallets_getPublickey(c.keyId, der)
          IN  addressCalls' =
                [addressCalls EXCEPT ![Len(addressCalls)] =
                    IF pub.ok
                    THEN [c EXCEPT !.publickey = Some(pub.val),
                                   !.outcome = Fulfilled(Wallets_derive(c.method, pub.val))]
                    ELSE [c EXCEPT !.outcome = Rejected(pub.err)]]
    /\ UNCHANGED <<gcpEcsign, awsCalls, signerVars, callVars, fnVars, tasks, gcpVars>>

\* the provider call under getPublickey fails
GetPublickeyFails ==
    /\ ~AddressIdle
    /\ \E error \in BackendErrors("getDerPublickey") :
          addressCalls' = [addressCalls EXCEPT ![Len(addressCalls)].outcome = Rejected(error)]
    /\ UNCHANGED <<gcpEcsign, awsCalls, signerVars, callVars, fnVars, tasks, gcpVars>>

InitAddress ==
    /\ build = "src"
    /\ walletKind \in {"KMS", "HD"}
    /\ ctorChainId = Undefined
    /\ common = Undefined
    /\ Idle
    /\ fnIn = Undefined
    /\ fnOut = Undefined
    /\ tasks = <<>>
    /\ GcpFresh
    /\ ExtraFresh

NextAddress ==
    \/ Wallets_getAddress
    \/ Wallets_getAddressHex
    \/ GetPublickeySettles
    \/ GetPublickeyFails

SpecAddress == InitAddress /\ [][NextAddress]_vars

(***************************************************************************)
(* KMSProviderAWS: each method sends one command to the KMSClient and      *)
(* settles when the client answers.                                        *)
(***************************************************************************)
MaxAwsCalls == 2

\* new GetPublicKeyCommand({KeyId})
GetPublicKeyCommand(keyId) ==
    [command |-> "GetPublicKeyCommand", KeyId |-> keyId, Message |-> <<>>,
     MessageType |-> "", SigningAlgorithm |-> ""]

\* new SignCommand({KeyId, Message, MessageType, SigningAlgorithm})
SignCommand(keyId, digest) ==
    [command |-> "SignCommand", KeyId |-> keyId, Message |-> digest,
     MessageType |-> "DIGEST", SigningAlgorithm |-> "ECDSA_SHA_256"]

\* a call of a provider method: the commands it has sent with kms.send,
\* the response of the client, and what became of the call
AwsCall(method, keyId, command) ==
    [method |-> method, keyId |-> keyId, requests |-> <<command>>,
     response |-> Undefined, outcome |-> Pending]

AwsIdle ==
    IF awsCalls = <<>> THEN TRUE
    ELSE awsCalls[Len(awsCalls)].outcome.status # "pending"

AwsAwaits(method) ==
    IF awsCalls = <<>> THEN FALSE
    ELSE /\ awsCalls[Len(awsCalls)].outcome.status = "pending"
         /\ awsCalls[Len(awsCalls)].method = method

AwsSettle(response, outcome) ==
    awsCalls' = [awsCalls EXCEPT ![Len(awsCalls)].response = response,
                                 ![Len(awsCalls)].outcome = outcome]

AWS_getDerPublickey ==
    \E keyId \in KeyIds :
        /\ AwsIdle
        /\ Len(awsCalls) < MaxAwsCalls
        /\ awsCalls' = Append(awsCalls,
                              AwsCall("getDerPublickey", keyId, GetPublicKeyCommand(keyId)))
        /\ UNCHANGED <<addressCalls, gcpEcsign, signerVars, callVars, fnVars, tasks, gcpVars>>

AWS_signDigest ==
    \E keyId \in KeyIds, digest \in Digests :
        /\ AwsIdle
        /\ Len(awsCalls) < MaxAwsCalls
        /\ awsCalls' = Append(awsCalls,
                              AwsCall("signDigest", keyId, SignCommand(keyId, digest)))
        /\ UNCHANGED <<addressCalls, gcpEcsign, signerVars, callVars, fnVars, tasks, gcpVars>>

\* getDerPublickey lines 33-36
AWS_getDerPublickey_return(key) ==
    IF ~IsDefined(key.PublicKey) THEN Rejected("AWSKMS: PublicKey is undefined.")
    ELSE Fulfilled(ValueOf(key.PublicKey))

\* signDigest that stands an empty buffer in for a missing Signature
AWS_signDigest_return_placeholder(response) ==
    IF ~IsDefined(response.Signature) THEN Fulfilled(<<>>)
    ELSE Fulfilled(ValueOf(response.Signature))

\* signDigest lines 52-55
AWS_signDigest_return(response) ==
    IF ~IsDefined(response.Signature) THEN Rejected("AWSKMS: Signature is undefined.")
    ELSE Fulfilled(ValueOf(response.Signature))

\* the client answers GetPublicKeyCommand, with or without a PublicKey
AwsGetPublicKeyResponds ==
    /\ AwsAwaits("getDerPublickey")
    /\ \E PublicKey \in {Undefined, Some(<<>>),
                          Some(KMS_GetPublicKey(awsCalls[Len(awsCalls)].keyId))} :
          AwsSettle(Some([PublicKey |-> PublicKey]),
                    AWS_getDerPublickey_return([PublicKey |-> PublicKey]))
    /\ UNCHANGED <<addressCalls, gcpEcsign, signerVars, callVars, fnVars, tasks, gcpVars>>

\* the client answers SignCommand, with or without a Signature
AwsSignResponds ==
    /\ AwsAwaits("signDigest")
    /\ \E Signature \in
            {Undefined, Some(<<>>)} \cup
            {Some(KMS_Sign(awsCalls[Len(awsCalls)].keyId,
                           awsCalls[Len(awsCalls)].requests[1].Message, t, FALSE)) :
                t \in 1..MaxNonce} :
          AwsSettle(Some([Signature |-> Signature]),
                    AWS_signDigest_return([Signature |-> Signature]))
    /\ UNCHANGED <<addressCalls, gcpEcsign, signerVars, callVars, fnVars, tasks, gcpVars>>

\* kms.send rejects
AwsSendRejects ==
    /\ ~AwsIdle
    /\ AwsSettle(Undefined, Rejected("BackendError"))
    /\ UNCHANGED <<addressCalls, gcpEcsign, signerVars, callVars, fnVars, tasks, gcpVars>>

NextAWS ==
    \/ AWS_getDerPublickey
    \/ AWS_signDigest
    \/ AwsGetPublicKeyResponds
    \/ AwsSignResponds
    \/ AwsSendRejects

SpecAWS == InitGCP /\ [][NextAWS]_vars

(***************************************************************************)
(* Properties                                                              *)
(***************************************************************************)
\* KMSWallets.ecsign has resolved with {r, s, v}
KMSEcsignReturned == walletKind = "KMS" /\ IsDefined(ecsignResult)

\* the address KMSWallets.ecsign must sign for: account.address when it is
\* supplied, else the address of the provider's public key for the key id
TargetAddress ==
    IF IsDefined(call.account.address) THEN ValueOf(call.account.address)
    ELSE KMSWallets_getAddress(KMS_GetPublicKey(call.account.keyId)).val

\* recovered is the outcome of a recovery: it succeeded and gave target
RecoversTo(recovered, target) == recovered.ok /\ BufferEquals(recovered.val, target)

\* the {r, s, v} wallets.ecsign resolved with verifies for target
Verifies(sig, target) ==
    RecoversTo(fromVRS_getAddress(call.digest, sig.v, sig.r, sig.s, call.chainId), target)

IsLowS(sig) == bufferToBigInt(sig.s) <= secp256k1halfN

\* C1: whenever KMSWallets.ecsign returns {r, s, v}, the public key recovered
\* from (digest, v, r, s, chainId) has the target address (account.address
\* when supplied, else the address of the provider's public key for the key
\* id), s is at most N/2, and v is not the sentinel -1.
C1_EcsignReturnsVerifiableSignature ==
    KMSEcsignReturned =>
        /\ ValueOf(ecsignResult).v # -1
        /\ IsLowS(ValueOf(ecsignResult))
        /\ Verifies(ValueOf(ecsignResult), TargetAddress)

\* KMSWallets.ecsign returned for a key whose address it had to fetch, under
\* a chain id, after the backend answered with the high s
C1_Witness ==
    /\ KMSEcsignReturned
    /\ ~IsDefined(call.account.address)
    /\ IsDefined(call.chainId)
    /\ derSig # Some(DerSignature(bufferToBigInt(ValueOf(ecsignResult).r),
                                  bufferToBigInt(ValueOf(ecsignResult).s)))

\* the address recovered from (digest, r, s) with recovery id recid
RecoveredWith(recid, decoded) ==
    fromVRS_getAddress(call.digest, 27 + recid, decoded.r, decoded.s, Undefined)

\* KMSWallets.ecsign ran calculateV and neither recovery id gives the
\* address it was run for
NeitherCandidateRecovers ==
    /\ walletKind = "KMS"
    /\ IsDefined(address)
    /\ ~RecoversTo(RecoveredWith(0, ValueOf(rs)), ValueOf(address))
    /\ ~RecoversTo(RecoveredWith(1, ValueOf(rs)), ValueOf(address))

\* C2: when neither candidate recovery value recovers the expected address,
\* calculateV reports failure and KMSWallets.ecsign fails with an error
\* instead of returning any {r, s, v}.
C2_NoSignatureWhenNeitherCandidateRecovers ==
    NeitherCandidateRecovers =>
        /\ ~(ValueOf(v).ok /\ ValueOf(v).val # -1)
        /\ ~IsDefined(ecsignResult)
        /\ result.status = "rejected"

\* the backend signed with one key and account.address names another:
\* ecsign threw on the sentinel
C2_Witness ==
    /\ NeitherCandidateRecovers
    /\ ValueOf(v).ok
    /\ ValueOf(v).val = -1
    /\ result.error = "ServerKMS: v is invalid."

\* outcome is a value, not a throw, and the value is val
ReturnsExactly(outcome, val) == outcome.ok /\ outcome.val = val

\* HDWallets.ecsign has resolved with {r, s, v}
HDEcsignReturned == walletKind = "HD" /\ IsDefined(ecsignResult)

\* C3: round trip.  For every private key, digest and chain id (absent or
\* present), if {r, s, v} is what the HD provider's ecsign returns for the
\* digest under the key with that chain id, then calculateV(address of the
\* key, digest, r, s, chainId) returns exactly v.
C3_CalculateVRecoversTheSignedV ==
    HDEcsignReturned =>
        ReturnsExactly(calculateV(AddressOf(call.account.keyId), call.digest,
                                  ValueOf(ecsignResult).r, ValueOf(ecsignResult).s,
                                  call.chainId),
                       ValueOf(ecsignResult).v)

\* the candidates as specified: 27 and 28 without a chain id, chainId*2+35
\* and chainId*2+36 for every chain id that is supplied
SpecifiedCandidate1(chainId) == IF IsDefined(chainId) THEN ValueOf(chainId) * 2 + 35 ELSE 27

SpecifiedCandidate2(chainId) == IF IsDefined(chainId) THEN ValueOf(chainId) * 2 + 36 ELSE 28

\* the result as specified: c1 when its recovery gives target, else c2 when
\* its recovery gives target, else the failure value
SpecifiedResult(target, c1, first, c2, second) ==
    IF RecoversTo(first, target) THEN c1
    ELSE IF RecoversTo(second, target) THEN c2
    ELSE -1

\* C4: calculateV uses the candidates 27 and 28 when no chain id is
\* supplied and chainId*2+35 and chainId*2+36 for every chain id that is
\* supplied, 0 included; it returns candidate 1 when it matches, candidate 2
\* only when candidate 1 does not match, and its result is always one of
\* candidate 1, candidate 2 and the failure value.
C4_CalculateVCandidates ==
    IsDefined(v) =>
        /\ candidate_1(call.chainId) = SpecifiedCandidate1(call.chainId)
        /\ candidate_2(call.chainId) = SpecifiedCandidate2(call.chainId)
        /\ ReturnsExactly(ValueOf(v),
               SpecifiedResult(ValueOf(address),
                   SpecifiedCandidate1(call.chainId),
                   fromVRS_getAddress(call.digest, SpecifiedCandidate1(call.chainId),
                                      ValueOf(rs).r, ValueOf(rs).s, call.chainId),
                   SpecifiedCandidate2(call.chainId),
                   fromVRS_getAddress(call.digest, SpecifiedCandidate2(call.chainId),
                                      ValueOf(rs).r, ValueOf(rs).s, call.chainId)))

\* decoded is {r, s} with r unchanged and s the canonical form of the
\* encoded s
IsCanonicalFormOf(decoded, r, s) ==
    /\ bufferToBigInt(decoded.r) = r
    /\ bufferToBigInt(decoded.s) = (IF 2 * s > secp256k1N THEN secp256k1N - s ELSE s)
    /\ 2 * bufferToBigInt(decoded.s) <= secp256k1N

\* C5: for every DER signature with integers (r, s), decodeRS returns
\* s' = N - s when s > N/2 and s' = s when s <= N/2; the returned s' is
\* at most N/2; r is returned with its value unchanged.
C5_DecodeRSLowS ==
    IsDefined(fnOut) =>
        /\ ValueOf(fnOut).ok
        /\ IsCanonicalFormOf(ValueOf(fnOut).val, ValueOf(fnIn).r, ValueOf(fnIn).s)

\* decodeRS was applied to a signature whose s is above N/2 and inverted it
C5_Witness ==
    /\ IsDefined(fnOut)
    /\ 2 * ValueOf(fnIn).s > secp256k1N
    /\ ValueOf(fnOut).ok
    /\ bufferToBigInt(ValueOf(fnOut).val.s) = secp256k1N - ValueOf(fnIn).s

\* a signMessage or signDigest call has returned its signature string
SignatureReturned ==
    /\ call.op \in {"signMessage", "signDigest"}
    /\ result.status = "fulfilled"

\* '0x', r as exactly ScalarLen zero-padded bytes, s likewise, v in at least
\* one byte
SpecifiedEncoding(sig) ==
    addHexPrefix(toHex(ToBytes(bufferToBigInt(sig.r), ScalarLen))
                 \o toHex(ToBytes(bufferToBigInt(sig.s), ScalarLen))
                 \o toHex(bigIntToBuffer(sig.v)))

\* the number of characters of a signature of r, s and a one-byte v
SignatureChars == 2 + 2 * (2 * ScalarLen + 1)

\* C6: for every {r, s, v} the wallet returns, r or s with leading zero
\* bytes included, signDigest returns '0x' followed by r as exactly 32
\* zero-padded bytes, s as exactly 32 zero-padded bytes and v in at least
\* one byte; signMessage returns a 65-byte signature when v is 27 or 28.
\* (The model's scalars have ScalarLen bytes.)
C6_SignDigestFixedWidth ==
    SignatureReturned =>
        /\ result.value = SpecifiedEncoding(ValueOf(ecsignResult))
        /\ (call.op = "signMessage" /\ ValueOf(ecsignResult).v \in {27, 28}
                => Len(result.value) = SignatureChars)

\* what wallets.ecsign returns for the call in flight when it is handed no
\* chain id, as a Signer without chain id hands it: the HD signature, or
\* the KMS signature resolved from the same backend answers
SignatureWithoutChainId ==
    IF walletKind = "HD"
    THEN HDProvider_ecsign(call.account.keyId, call.digest, Undefined)
    ELSE KMSWallets_ecsign_finish(ValueOf(address), call.digest, ValueOf(rs), Undefined).val

\* C7: for a Signer constructed with any chain id, signMessage and
\* signDigest call wallet.ecsign with no chain id, the v of every message
\* or digest signature is 27 or 28, and the returned signature is the one a
\* Signer without chain id returns for the same account and message.
C7_MessagesAreNotChainBound ==
    call.op \in {"signMessage", "signDigest"} =>
        /\ call.chainId = Undefined
        /\ (IsDefined(ecsignResult) => ValueOf(ecsignResult).v \in {27, 28})
        /\ (result.status = "fulfilled" =>
                result.value = signDigest_return(SignatureWithoutChainId))

\* a Signer with a chain id returned a message signature from the KMS wallet
C7_Witness ==
    /\ IsDefined(common)
    /\ walletKind = "KMS"
    /\ call.op = "signMessage"
    /\ result.status = "fulfilled"
    /\ ValueOf(ecsignResult).v = 28

\* C8: for every chain id c provided at Signer construction, 0 included,
\* the Signer's chain configuration equals c after any sequence of
\* signTransaction, signMessage and signDigest calls, successful or failed,
\* and every signTransaction call passes c to wallet.ecsign.
C8_ChainIdFixedAtConstruction ==
    IsDefined(ctorChainId) =>
        /\ common = ctorChainId
        /\ (call.op = "signTransaction" => call.chainId = ctorChainId)

\* the legacy signing digest: the hash of the RLP of the six fields
LegacyDigest(txData) == keccak256(RlpList(TxFields(txData)))

\* the EIP-155 signing digest bound to chainId: the six fields, chainId, 0, 0
EIP155Digest(txData, chainId) ==
    keccak256(RlpList(TxFields(txData) \o <<bigIntToUnpaddedBuffer(chainId), <<>>, <<>>>>))

\* signTransaction hands the wallet a digest and a chain id that agree
DigestAndChainIdAgree ==
    IF IsDefined(common)
    THEN /\ call.digest = EIP155Digest(ValueOf(call.txData), ValueOf(common))
         /\ call.chainId = common
    ELSE /\ call.digest = LegacyDigest(ValueOf(call.txData))
         /\ call.chainId = Undefined

\* the digest the wallet signed is the signing digest of the returned
\* transaction, whose sender is the address of the signing key
ReturnedTransactionVerifies(tx) ==
    /\ getMessageToSign(tx) = call.digest
    /\ RecoversTo(getSenderAddress(tx), AddressOf(call.account.keyId))

\* C9: in signTransaction the digest and the chain id handed to the wallet
\* agree: a Signer without chain id signs the legacy digest and passes no
\* chain id, a Signer with chain id c signs the EIP-155 digest bound to c
\* and passes c; in both cases the digest the wallet signed is the signing
\* digest of the returned transaction, so the sender recovered from the
\* returned transaction is the address of the signing key.
C9_TransactionDigestMatchesChainId ==
    call.op = "signTransaction" =>
        /\ DigestAndChainIdAgree
        /\ (result.status = "fulfilled" => ReturnedTransactionVerifies(ValueOf(signedTx)))

\* C10: signing a transaction through a Signer with chain id c yields v in
\* {2c+35, 2c+36}, which is outside the v set of every other chain id, so
\* the transactions signed under two chain ids differ in v.
C10_TransactionVFollowsChainId ==
    (call.op = "signTransaction" /\ IsDefined(ctorChainId) /\ IsDefined(ecsignResult)) =>
        /\ ValueOf(ecsignResult).v \in {2 * ValueOf(ctorChainId) + 35,
                                         2 * ValueOf(ctorChainId) + 36}
        /\ \A other \in (0..MaxChainId) \ {ValueOf(ctorChainId)} :
               ValueOf(ecsignResult).v \notin {2 * other + 35, 2 * other + 36}

\* the positions in providerCalls of the calls of method
CallIndices(method) == {i \in DOMAIN providerCalls : providerCalls[i].method = method}

\* a KMSWallets.ecsign call is in flight or has settled
KMSEcsignCalled == walletKind = "KMS" /\ call.op # "none"

\* C11: in one KMSWallets.ecsign call provider.signDigest is invoked exactly
\* once, with the caller's key id and digest; when account.address is
\* supplied getDerPublickey is never invoked; when it is absent
\* getDerPublickey is invoked exactly once, with the same key id, and only
\* after signDigest has returned.
C11_ProviderCallsOfEcsign ==
    KMSEcsignCalled =>
        /\ CallIndices("signDigest") = {1}
        /\ providerCalls[1].keyId = call.account.keyId
        /\ providerCalls[1].digest = call.digest
        /\ IF IsDefined(call.account.address)
           THEN CallIndices("getDerPublickey") = {}
           ELSE /\ CallIndices("getDerPublickey") \subseteq {2}
                /\ (IsDefined(rs) => CallIndices("getDerPublickey") = {2})
                /\ (CallIndices("getDerPublickey") = {2} =>
                        /\ providerCalls[2].keyId = call.account.keyId
                        /\ providerCalls[1].outcome = "returned"
                        /\ IsDefined(derSig))

\* an ecsign call without account.address returned its signature after one
\* signDigest and one getDerPublickey
C11_Witness ==
    /\ KMSEcsignReturned
    /\ ~IsDefined(call.account.address)
    /\ Len(providerCalls) = 2
    /\ providerCalls[2].method = "getDerPublickey"
    /\ providerCalls[2].outcome = "returned"

\* the provider call in flight was rejected
BackendFailed ==
    /\ walletKind = "KMS"
    /\ providerCalls # <<>>
    /\ providerCalls[Len(providerCalls)].outcome \notin {"pending", "returned"}

\* the Signer operation was rejected with error and returned nothing
RejectedWith(error) ==
    /\ pc = "done"
    /\ result.status = "rejected"
    /\ result.error = error
    /\ result.value = <<>>
    /\ ~IsDefined(ecsignResult)
    /\ ~IsDefined(signedTx)

\* C12: if provider.signDigest or provider.getDerPublickey fails,
\* KMSWallets.ecsign and the Signer operation that called it fail with that
\* same failure, no signature or serialized transaction is returned, and
\* the failed backend call is not repeated.
C12_BackendFailurePropagates ==
    BackendFailed =>
        /\ RejectedWith(providerCalls[Len(providerCalls)].outcome)
        /\ CallIndices(providerCalls[Len(providerCalls)].method) = {Len(providerCalls)}
        /\ \A i \in 1..(Len(providerCalls) - 1) : providerCalls[i].outcome = "returned"

\* signTransaction was rejected with the failure of getDerPublickey
C12_Witness ==
    /\ BackendFailed
    /\ call.op = "signTransaction"
    /\ providerCalls[Len(providerCalls)].method = "getDerPublickey"
    /\ result.error = "AWSKMS: PublicKey is undefined."

\* what the call c returns when it runs alone and the backend gives it
\* the answers in responses
RunAlone(c, responses) ==
    IF walletKind = "HD"
    THEN SignerResult(c, Ok(HDProvider_ecsign(c.account.keyId, c.digest, c.chainId)))
    ELSE LET signed == ValueOf(responses.signDigest)
             dec == decodeRS(signed.val)
             der == ValueOf(responses.getDerPublickey)
             addr == KMSWallets_getAddress(der.val)
         IN  IF ~signed.ok THEN SignerResult(c, KMSWallets_ecsign_rejects(signed.err))
             ELSE IF ~dec.ok THEN SignerResult(c, dec)
             ELSE IF ~needsAddress(c.account)
             THEN SignerResult(c, KMSWallets_ecsign_finish(
                                      ValueOf(c.account.address), c.digest, dec.val,
                                      c.chainId))
             ELSE IF ~der.ok THEN SignerResult(c, KMSWallets_ecsign_rejects(der.err))
             ELSE IF ~addr.ok THEN SignerResult(c, addr)
             ELSE SignerResult(c, KMSWallets_ecsign_finish(addr.val, c.digest, dec.val,
                                                          c.chainId))

TaskDone(i) == tasks[i].locals.pc = "done"

\* C13: in every interleaving of concurrent signing calls on one Signer,
\* each call works on the inputs it was given and, once settled, has the
\* result it has when run alone with the same inputs and backend responses.
C13_ConcurrentCallsAreIndependent ==
    \A i \in DOMAIN tasks :
        /\ tasks[i].locals.call = tasks[i].input
        /\ TaskDone(i) => tasks[i].locals.result = RunAlone(tasks[i].input, tasks[i].responses)

\* two calls with different keys and digests: one has returned its
\* signature while the other is still suspended at its second round trip
C13_Witness ==
    /\ walletKind = "KMS"
    /\ DOMAIN tasks = TaskIds
    /\ \E i, j \in TaskIds :
           /\ TaskDone(i)
           /\ tasks[i].locals.result.status = "fulfilled"
           /\ IsDefined(tasks[i].responses.signDigest)
           /\ tasks[j].locals.pc = "awaitGetDerPublickey"
           /\ tasks[i].input.account.keyId # tasks[j].input.account.keyId
           /\ tasks[i].input.digest # tasks[j].input.digest

\* the requests the k-th call of the GCP provider sent to the client
RequestsOf(k) == {n \in DOMAIN kmsRequests : kmsRequests[n].call = k}

RejectedForMissingPath(c) ==
    /\ c.outcome.status = "rejected"
    /\ c.outcome.error = GcpMissingPath

\* C14: a call of getDerPublickey, signDigest or createKey that finds no
\* key ring path is rejected at once with the missing-path error and sends
\* nothing to the KMS client; one that finds a path sends its request.
C14_MissingPathFailsBeforeAnyRequest ==
    \A k \in DOMAIN gcpCalls :
        gcpCalls[k].method \in {"getDerPublickey", "signDigest", "createKey"} =>
            IF ~IsDefined(gcpCalls[k].path)
            THEN /\ RejectedForMissingPath(gcpCalls[k])
                 /\ RequestsOf(k) = {}
            ELSE /\ ~RejectedForMissingPath(gcpCalls[k])
                 /\ Cardinality(RequestsOf(k)) = 1

\* signDigest was refused for want of a path, sent nothing, and after
\* setPath the same call went to the client and returned the signature
C14_Witness ==
    /\ Len(gcpCalls) = 2
    /\ gcpCalls[1].method = "signDigest"
    /\ RejectedForMissingPath(gcpCalls[1])
    /\ gcpCalls[2].method = "signDigest"
    /\ IsDefined(gcpCalls[2].path)
    /\ gcpCalls[2].outcome.status = "fulfilled"
    /\ Len(kmsRequests) = 1
    /\ kmsRequests[1].call = 2
    /\ kmsRequests[1].method = "asymmetricSign"

\* C15: on a fresh GCP provider createKeyRing(id), called first and before
\* any setPath, sends the request to the client and, the key ring created,
\* returns id.
C15_SetupSequenceSucceeds ==
    (/\ gcpCalls # <<>>
     /\ gcpCalls[1].method = "createKeyRing"
     /\ ~IsDefined(gcpCalls[1].path))
        => /\ gcpCalls[1].outcome.status # "rejected"
           /\ Cardinality(RequestsOf(1)) = 1

\* the r, s and v a verifier reads in a signature string: '0x', then
\* ScalarLen bytes of r, ScalarLen bytes of s, and the bytes of v
SignatureFields(str) ==
    LET bytes == fromHex(SubSeq(str, 3, Len(str)))
    IN  IF Len(bytes) <= 2 * ScalarLen THEN Throw("signature too short")
        ELSE Ok([r |-> SubSeq(bytes, 1, ScalarLen),
                 s |-> SubSeq(bytes, ScalarLen + 1, 2 * ScalarLen),
                 v |-> bufferToBigInt(SubSeq(bytes, 2 * ScalarLen + 1, Len(bytes)))])

\* the signature string recovers on digest, without chain id, to target
StringRecoversTo(str, digest, target) ==
    LET sig == SignatureFields(str)
    IN  /\ sig.ok
        /\ RecoversTo(fromVRS_getAddress(digest, sig.val.v, sig.val.r, sig.val.s,
                                         Undefined), target)

HDSignedMessage ==
    /\ walletKind = "HD"
    /\ call.op = "signMessage"
    /\ result.status = "fulfilled"

\* C16: whatever (r, s, v) HDWallets.ecsign returns, for chain id absent or
\* present, the address recovered from (digest, v, r, s, chainId) is the
\* address getAddress returns for the key id; and the signature signMessage
\* returns recovers, on the personal-message digest, to getAddress(keyId).
C16_HDSignatureRecoversToGetAddress ==
    /\ HDEcsignReturned => Verifies(ValueOf(ecsignResult), AddressOf(call.account.keyId))
    /\ HDSignedMessage =>
           StringRecoversTo(result.value, call.digest, AddressOf(call.account.keyId))

\* what the HD wallet's ecsign returns for the key, digest and chain id of
\* the call
HDSignatureOfCall == HDProvider_ecsign(call.account.keyId, call.digest, call.chainId)

\* the backend answered signDigest with DER(r, s') where (r, s) is the HD
\* signature and s' is s or N - s
BackendReturnedHDSignature ==
    /\ IsDefined(derSig)
    /\ LET r == bufferToBigInt(HDSignatureOfCall.r)
           s == bufferToBigInt(HDSignatureOfCall.s)
       IN  ValueOf(derSig) \in {DerSignature(r, s), DerSignature(r, secp256k1N - s)}

\* the call signs for the key itself: no address given, or the key's own
SignsForTheKey ==
    IsDefined(call.account.address) =>
        ValueOf(call.account.address) = AddressOf(call.account.keyId)

SameValues(kms, hd) ==
    /\ bufferToBigInt(kms.r) = bufferToBigInt(hd.r)
    /\ bufferToBigInt(kms.s) = bufferToBigInt(hd.s)
    /\ kms.v = hd.v

\* C17: for the same key, digest and chain id, when the KMS backend answers
\* with the DER encoding of (r, s') where s' is the s of the HD signature or
\* N - s, KMSWallets.ecsign returns the r, s and v the HD wallet's ecsign
\* returns.
C17_BackendEquivalence ==
    (/\ walletKind = "KMS"
     /\ pc = "done"
     /\ BackendReturnedHDSignature
     /\ SignsForTheKey
     /\ ~BackendFailed)
        => /\ IsDefined(ecsignResult)
           /\ SameValues(ValueOf(ecsignResult), HDSignatureOfCall)

KeyIdApplied == IsDefined(fnIn) /\ IsDefined(fnOut) /\ ValueOf(fnIn).kind \in {"string", "object"}

\* keyId returned path in the hd-wallets package, and the same path under
\* m/44'/0'/ in the root package
KeyIdReturns(out, expected) ==
    /\ out.hd.ok /\ out.hd.val = expected
    /\ out.root.ok /\ out.root.val = Bip44Prefix \o expected

\* keyId returns for shortId what it returns for the string str
KeyIdAgreesWithString(out, str) ==
    LET shortId == [kind |-> "string", str |-> str, account |-> Undefined, index |-> 0]
    IN  /\ UBIP44_keyId(shortId).ok
        /\ KeyIdReturns(out, UBIP44_keyId(shortId).val)
        /\ out.root.val = UBIP44_keyId_root(shortId).val

\* str is "{a}-{i}" with a and i decimal digit strings
IsAccountIndexString(str, a, i) ==
    /\ IsDigits(a)
    /\ IsDigits(i)
    /\ str = a \o <<"-">> \o i

IsShortIdFormat(str) ==
    \/ IsDigits(str)
    \/ \E k \in 1..Len(str) :
           IsAccountIndexString(str, SubSeq(str, 1, k - 1), SubSeq(str, k + 1, Len(str)))

KeyIdFails(outcome) ==
    /\ ~outcome.ok
    /\ outcome.err = BadShortIdFormat
    /\ outcome.val = <<>>

\* C19: for every string that is neither only decimal digits nor decimal
\* digits, one '-', decimal digits, keyId fails with the format error and
\* returns no path.
C19_KeyIdRejectsOtherStrings ==
    (/\ KeyIdApplied
     /\ ValueOf(fnIn).kind = "string"
     /\ ~IsShortIdFormat(ValueOf(fnIn).str))
        => /\ KeyIdFails(ValueOf(fnOut).hd)
           /\ KeyIdFails(ValueOf(fnOut).root)

\* keyId("4-0-4") has thrown
C19_Witness ==
    /\ KeyIdApplied
    /\ ValueOf(fnIn).kind = "string"
    /\ ValueOf(fnIn).str = <<"4", "-", "0", "-", "4">>
    /\ KeyIdFails(ValueOf(fnOut).hd)
    /\ KeyIdFails(ValueOf(fnOut).root)

\* bytes is SEQUENCE { INTEGER, INTEGER } and nothing more
MatchesSignatureSchema(bytes) ==
    /\ Len(bytes) >= 4
    /\ bytes[1] = TagSequence
    /\ bytes[2] = Len(bytes) - 2
    /\ bytes[3] = TagInteger
    /\ Len(bytes) >= 6 + bytes[4]
    /\ bytes[5 + bytes[4]] = TagInteger
    /\ bytes[6 + bytes[4]] = Len(bytes) - 6 - bytes[4]

BackendReturnedNoSignature ==
    /\ walletKind = "KMS"
    /\ IsDefined(derSig)
    /\ ~MatchesSignatureSchema(ValueOf(derSig))

ChecksumApplied ==
    IsDefined(fnIn) /\ IsDefined(fnOut) /\ ValueOf(fnIn).kind = "address"

\* C21: for every address a, the checksum address of the address built
\* from the lower-cased, or from the mixed-case, hex of getChecksumAddress(a)
\* is getChecksumAddress(a) again: the casing follows from the bytes alone.
C21_ChecksumIdempotent ==
    ChecksumApplied =>
        /\ ValueOf(fnOut).ofLower = ValueOf(fnOut).checksum
        /\ ValueOf(fnOut).ofMixed = ValueOf(fnOut).checksum
        /\ toLowerCase(ValueOf(fnOut).checksum) = UAddress_getAddressHex(ValueOf(fnIn).bytes)

\* a checksum address that has letters of both cases
C21_Witness ==
    /\ ChecksumApplied
    /\ ValueOf(fnOut).checksum # toLowerCase(ValueOf(fnOut).checksum)
    /\ ValueOf(fnOut).checksum # toUpperCase(ValueOf(fnOut).checksum)
    /\ ValueOf(fnOut).ofMixed = ValueOf(fnOut).checksum

DerPublickeyApplied ==
    IsDefined(fnIn) /\ IsDefined(fnOut) /\ ValueOf(fnIn).kind = "spki"

\* C22: for every DER public key that verifies against the
\* SubjectPublicKeyInfo schema, fromPublickeyDerEncoding returns the BIT
\* STRING payload without its leading 0x04 marker byte, which is the raw
\* uncompressed point X || Y of 2 * ScalarLen bytes; an input that does not
\* verify fails with the parse error and yields no key.
C22_DerPublickeyIsTheRawPoint ==
    DerPublickeyApplied =>
        IF ValueOf(fnIn).verifies
        THEN /\ ValueOf(fnOut).ok
             /\ ValueOf(fnOut).val = Tail(ValueOf(fnIn).payload)
             /\ Len(ValueOf(fnOut).val) = 2 * ScalarLen
             /\ ValueOf(fnOut).val = ValueOf(fnIn).point
        ELSE /\ ~ValueOf(fnOut).ok
             /\ ValueOf(fnOut).err = "Publickey: failed to parse."
             /\ ValueOf(fnOut).val = <<>>

BufferOrHexApplied ==
    IsDefined(fnIn) /\ IsDefined(fnOut) /\ ValueOf(fnIn).kind = "digest"

\* C23: bufferOrHex returns a Buffer unchanged and decodes a hex string
\* without its leading '0x': for every byte string b,
\* bufferOrHex('0x' + hex(b)) = bufferOrHex(hex(b)) = b; and signDigest
\* returns the same signature for a digest as bytes and as '0x'-prefixed
\* hex.
C23_BufferOrHexDecodes ==
    BufferOrHexApplied =>
        /\ ValueOf(fnOut).ofBuffer = ValueOf(fnIn).bytes
        /\ ValueOf(fnOut).ofHex = ValueOf(fnIn).bytes
        /\ ValueOf(fnOut).ofPrefixed = ValueOf(fnIn).bytes
        /\ ValueOf(fnOut).signedPrefixed = ValueOf(fnOut).signedBuffer
        /\ ValueOf(fnOut).signedBuffer.digest = ValueOf(fnIn).bytes

\* a digest whose hex begins with 00 was signed in both forms
C23_Witness ==
    /\ BufferOrHexApplied
    /\ ValueOf(fnIn).bytes[1] = 0
    /\ ValueOf(fnIn).bytes[HashLen] = 171
    /\ ValueOf(fnOut).signedPrefixed.signature # <<>>
    /\ ValueOf(fnOut).signedPrefixed = ValueOf(fnOut).signedBuffer

\* C24: for both wallets and every key id, getAddress and getAddressHex
\* each call getPublickey exactly once, with that key id, and derive the
\* address from its result; getAddressHex is '0x' and the lower-case hex of
\* the AddrLen bytes getAddress returns; a getPublickey failure makes the
\* call fail.
C24_AddressFromOneGetPublickey ==
    \A k \in DOMAIN addressCalls :
        LET c == addressCalls[k]
        IN  /\ c.getPublickeyCalls = <<c.keyId>>
            /\ c.outcome.status = "fulfilled" =>
                  /\ IsDefined(c.publickey)
                  /\ c.method = "getAddress" =>
                        /\ c.outcome.value = publicToAddress(ValueOf(c.publickey))
                        /\ Len(c.outcome.value) = AddrLen
                  /\ c.method = "getAddressHex" =>
                        /\ c.outcome.value =
                              <<"0", "x">> \o toHex(publicToAddress(ValueOf(c.publickey)))
                        /\ c.outcome.value = toLowerCase(c.outcome.value)
            /\ ~IsDefined(c.publickey) => c.outcome.status \in {"pending", "rejected"}
            /\ c.outcome.status = "rejected" => c.outcome.value = <<>>

\* getAddress and then getAddressHex of the same key have both returned, the
\* second with the hex of what the first returned
C24_Witness ==
    /\ Len(addressCalls) = 2
    /\ addressCalls[1].method = "getAddress"
    /\ addressCalls[1].outcome.status = "fulfilled"
    /\ addressCalls[2].method = "getAddressHex"
    /\ addressCalls[2].keyId = addressCalls[1].keyId
    /\ addressCalls[2].outcome.status = "fulfilled"
    /\ addressCalls[2].outcome.value = <<"0", "x">> \o toHex(addressCalls[1].outcome.value)

\* the backend calls of the KMSWallets.ecsign in progress: one signDigest,
\* then at most one getDerPublickey, only the last of them pending
AtMostTwoBackendCalls ==
    /\ Len(providerCalls) <= 2
    /\ Len(providerCalls) >= 1 => providerCalls[1].method = "signDigest"
    /\ Len(providerCalls) = 2 =>
          /\ providerCalls[2].method = "getDerPublickey"
          /\ providerCalls[1].outcome = "returned"
    /\ pc \in {"awaitSignDigest", "awaitGetDerPublickey"} =>
          /\ providerCalls # <<>>
          /\ providerCalls[Len(providerCalls)].outcome = "pending"
    /\ (pc = "done" /\ providerCalls # <<>>) =>
          providerCalls[Len(providerCalls)].outcome # "pending"

\* the public-key recoveries calculateV made for the v it resolved
RecoveryAttempts ==
    calculateV_attempts(ValueOf(address),
        fromVRS_getAddress(call.digest, candidate_1(call.chainId),
                           ValueOf(rs).r, ValueOf(rs).s, call.chainId))

AtMostTwoRecoveries ==
    IsDefined(v) =>
        /\ RecoveryAttempts \in {1, 2}
        /\ ValueOf(v).ok =>
              ValueOf(v).val \in {candidate_1(call.chainId), candidate_2(call.chainId), -1}
        /\ (ValueOf(v).ok /\ ValueOf(v).val = candidate_1(call.chainId)) =>
              RecoveryAttempts = 1

\* HDWallets.ecsign: from the call to its outcome in one step, without a
\* backend call
HDCompletesAtOnce ==
    (walletKind = "HD" /\ pc = "idle" /\ pc' # "idle") =>
        /\ pc' = "done"
        /\ result'.status # "pending"
        /\ providerCalls' = <<>>

\* C25: every signing operation terminates.  With a backend of which each
\* call eventually responds, KMSWallets.ecsign eventually resolves or
\* rejects, after at most two backend calls (one signDigest, at most one
\* getDerPublickey) and at most two public-key recoveries; HDWallets.ecsign
\* completes with no backend call and no suspension.
C25_EcsignTerminates ==
    /\ [](AtMostTwoBackendCalls /\ AtMostTwoRecoveries)
    /\ [](walletKind = "HD" => providerCalls = <<>> /\ pc \in {"idle", "done"})
    /\ [][HDCompletesAtOnce]_vars
    /\ (pc \in {"awaitSignDigest", "awaitGetDerPublickey"}) ~>
          (pc = "done" /\ result.status \in {"fulfilled", "rejected"})

\* KMSWallets.ecsign resolved after both backend calls and a second
\* recovery
C25_Witness ==
    /\ walletKind = "KMS"
    /\ pc = "done"
    /\ Len(providerCalls) = 2
    /\ result.status = "fulfilled"
    /\ IsDefined(v)
    /\ RecoveryAttempts = 2

\* the key ring a request names
KeyRingOf(request) == request.name[3]

\* C26: during one KMSWallets.ecsign on a GCP provider, for an account
\* without an address, the signDigest request and the later getDerPublickey
\* request name the same key ring, whatever setPath calls are interleaved;
\* no signature is returned that joins the signature of one key ring with
\* the public key of another.
C26_OneKeyRingPerEcsign ==
    /\ \A i, j \in DOMAIN kmsRequests : KeyRingOf(kmsRequests[i]) = KeyRingOf(kmsRequests[j])
    /\ IsDefined(gcpEcsign.signature) =>
          GcpKeyOf(kmsRequests[1].name) = GcpKeyOf(kmsRequests[2].name)

\* the asymmetricSign requests the client has answered
AnsweredSignRequests ==
    {k \in DOMAIN kmsRequests :
        /\ kmsRequests[k].method = "asymmetricSign"
        /\ IsDefined(kmsRequests[k].response)
        /\ "signature" \in DOMAIN ValueOf(kmsRequests[k].response)}

\* the response carries a signature and its CRC, the service confirmed the
\* CRC of the digest, and the CRC32C of the signature received is the one
\* reported
SignResponseIsSound(response) ==
    /\ IsDefined(response.signature)
    /\ IsDefined(response.signatureCrc32c)
    /\ response.verifiedDigestCrc32c
    /\ crc32c_calculate(ValueOf(response.signature)) = ValueOf(response.signatureCrc32c)

\* C27: KMSProviderGCP.signDigest returns signature bytes only when the
\* response carries a signature and a signature CRC, verifiedDigestCrc32c
\* is true and the CRC32C computed over the received signature equals the
\* reported one; then it returns that signature, and in every other case
\* it fails and returns no signature.
C27_SignDigestReturnsOnlyVerifiedSignatures ==
    /\ \A k \in AnsweredSignRequests :
          LET response == ValueOf(kmsRequests[k].response)
              c == gcpCalls[kmsRequests[k].call]
          IN  IF SignResponseIsSound(response)
              THEN /\ c.outcome.status = "fulfilled"
                   /\ c.outcome.value = ValueOf(response.signature)
              ELSE /\ c.outcome.status = "rejected"
                   /\ c.outcome.value = <<>>
    /\ \A n \in DOMAIN gcpCalls :
          (gcpCalls[n].method = "signDigest" /\ gcpCalls[n].outcome.status = "fulfilled") =>
              \E k \in AnsweredSignRequests : kmsRequests[k].call = n

\* signDigest has returned a signature, after an earlier signDigest whose
\* response came without the confirmation of the digest CRC was refused
C27_Witness ==
    /\ Len(gcpCalls) = 2
    /\ gcpCalls[1].method = "signDigest"
    /\ gcpCalls[1].outcome.error = "GCPKMS: request corrupted in-transit"
    /\ gcpCalls[2].method = "signDigest"
    /\ gcpCalls[2].outcome.status = "fulfilled"
    /\ gcpCalls[2].outcome.value # <<>>

\* decodeRS was applied to DER(r, s) with 1 <= s < N
DecodeRSAppliedBelowN ==
    /\ IsDefined(fnIn)
    /\ IsDefined(fnOut)
    /\ ValueOf(fnIn).fn = "decodeRS"
    /\ ValueOf(fnIn).s >= 1
    /\ ValueOf(fnIn).s < secp256k1N

\* decodeRS of the encoding of the values decoded gives back decoded
DecodesToItself(decoded) ==
    LET again == decodeRS(DerSignature(bufferToBigInt(decoded.r), bufferToBigInt(decoded.s)))
    IN  again.ok /\ again.val = decoded

\* C28: decodeRS is insensitive to S-malleation: for every r and every s
\* with 1 <= s < N, decoding DER(r, s) and decoding DER(r, N - s) return
\* the same (r, s'), and decoding the encoding of an already canonical
\* (r, s') returns it unchanged.
C28_DecodeRSIgnoresMalleation ==
    DecodeRSAppliedBelowN =>
        LET mirrored == decodeRS(DerSignature(ValueOf(fnIn).r, secp256k1N - ValueOf(fnIn).s))
        IN  /\ ValueOf(fnOut).ok
            /\ mirrored.ok
            /\ mirrored.val = ValueOf(fnOut).val
            /\ DecodesToItself(ValueOf(fnOut).val)

\* decodeRS was applied to a signature whose s is low and whose mirror
\* N - s is encoded with a sign byte
C28_Witness ==
    /\ DecodeRSAppliedBelowN
    /\ 2 * ValueOf(fnIn).s < secp256k1N
    /\ ValueOf(fnOut).ok
    /\ bufferToBigInt(ValueOf(fnOut).val.s) = ValueOf(fnIn).s
    /\ Len(DerInteger(secp256k1N - ValueOf(fnIn).s)) > Len(DerInteger(ValueOf(fnIn).s))

\* the Signer call in progress has failed
CallFailed == pc = "done" /\ result.status = "rejected"

\* the Signer call in progress has returned its result
CallFulfilled == pc = "done" /\ result.status = "fulfilled"

\* what the backend answered the call in progress
ObservedResponses ==
    [signDigest |->
        IF providerCalls = <<>> THEN Undefined
        ELSE IF providerCalls[1].outcome = "returned" THEN Some(Ok(ValueOf(derSig)))
        ELSE Some(Throw(providerCalls[1].outcome)),
     getDerPublickey |->
        IF Len(providerCalls) < 2 THEN Undefined
        ELSE IF providerCalls[2].outcome = "returned"
        THEN Some(Ok(KMS_GetPublicKey(call.account.keyId)))
        ELSE Some(Throw(providerCalls[2].outcome))]

\* the call in progress has the outcome it has on a Signer that never
\* served another call: the result string of a Signer method, the
\* signature of a direct wallets.ecsign
SameAsOnFreshSigner ==
    LET alone == RunAlone(call, ObservedResponses)
    IN  /\ result.status = alone.status
        /\ result.error = alone.error
        /\ call.op # "ecsign" => result.value = alone.value
        /\ (call.op = "ecsign" /\ result.status = "fulfilled") =>
                alone.value = signDigest_return(ValueOf(ecsignResult))

ResponseField(c) ==
    IF c.method = "getDerPublickey" THEN ValueOf(c.response).PublicKey
    ELSE ValueOf(c.response).Signature

MissingFieldError(c) ==
    IF c.method = "getDerPublickey" THEN "AWSKMS: PublicKey is undefined."
    ELSE "AWSKMS: Signature is undefined."

\* C30: KMSProviderAWS.getDerPublickey fails when the response has no
\* PublicKey and signDigest fails when the response has no Signature;
\* neither returns an empty or placeholder buffer in place of the missing
\* field (what they return is the field the response carries), and each
\* sends exactly one request per call, for the key id it was given.
C30_AwsMissingFieldFails ==
    \A k \in DOMAIN awsCalls :
        LET c == awsCalls[k]
        IN  /\ Len(c.requests) = 1
            /\ c.requests[1].KeyId = c.keyId
            /\ c.requests[1].command =
                  (IF c.method = "getDerPublickey" THEN "GetPublicKeyCommand"
                   ELSE "SignCommand")
            /\ (IsDefined(c.response) /\ ~IsDefined(ResponseField(c))) =>
                  /\ c.outcome.status = "rejected"
                  /\ c.outcome.error = MissingFieldError(c)
                  /\ c.outcome.value = <<>>
            /\ c.outcome.status = "fulfilled" =>
                  /\ IsDefined(c.response)
                  /\ IsDefined(ResponseField(c))
                  /\ c.outcome.value = ValueOf(ResponseField(c))

\* getDerPublickey was answered without a PublicKey and failed, and then
\* signDigest was answered without a Signature and failed
C30_Witness ==
    /\ Len(awsCalls) = 2
    /\ awsCalls[1].method = "getDerPublickey"
    /\ IsDefined(awsCalls[1].response)
    /\ ~IsDefined(ValueOf(awsCalls[1].response).PublicKey)
    /\ awsCalls[1].outcome.status = "rejected"
    /\ awsCalls[2].method = "signDigest"
    /\ IsDefined(awsCalls[2].response)
    /\ ~IsDefined(ValueOf(awsCalls[2].response).Signature)
    /\ awsCalls[2].outcome.status = "rejected"

=============================================================================
